---------------------------- MODULE Spec2Model ----------------------------
(***************************************************************************)
(* Verification model of the gorilla-warfare world-streaming core:         *)
(*   CollisionManager  (spatial hash grid of obstacle bounds),             *)
(*   TerrainGenerator  (procedural chunk content),                         *)
(*   ChunkManager      (resident chunk cache),                             *)
(*   OptimizedDynamicTerrain (the React component that drives the cache    *)
(*                      and registers chunk obstacles in the grid).        *)
(*                                                                         *)
(* Numbers.  The code computes with IEEE doubles.  The model is fixed      *)
(* point: one world unit is Scale model units, so that every length the    *)
(* code uses (0.8, 1.2, r * chunkSize for the modelled random values r)    *)
(* is an integer.  sqrt(a) < b is compared as a < b*b on non-negative      *)
(* integers.                                                               *)
(***************************************************************************)
EXTENDS Integers, Sequences, FiniteSets, TLC

VARIABLES
    allObjects,     \* CollisionManager.allObjects : id -> CollisionBounds
    spatialGrid,    \* CollisionManager.spatialGrid: <<gx,gz>> -> Seq(CollisionBounds)
    lastQuery,      \* the collision query call being returned to its caller (kind "none":
                    \* no call in progress)
    removedIds,     \* history: ids that were in the index, were removed from it
                    \* (removeCollisionObject, clearArea, clearAll) and not inserted since
    rngPos,         \* hidden state of Math.random: the place in RandomStream of the next draw
    generated,      \* the ChunkData values generateChunk has returned, in call order
    loadedChunks,   \* ChunkManager.loadedChunks: entries [key, data, lastAccessed] in
                    \* Map insertion order
    currentPlayerChunk, \* ChunkManager.currentPlayerChunk
    now,            \* Date.now()
    apiCalls,       \* history: number of ChunkManager calls made, and the name, the
                    \* argument and the return value of the last
    playerPosition, \* OptimizedDynamicTerrain's playerPosition prop as last rendered: <<x, z>>
    lastPlayerChunk,    \* OptimizedDynamicTerrain's lastPlayerChunk ref
    loadedChunksState,  \* OptimizedDynamicTerrain's loadedChunks React state, as last set
    mounted,        \* the OptimizedChunkComponents of the last commit, in render order:
                    \* [coord, chunkData, renderObjects (the features in renderObjectsRef)]
    preloaded,      \* the initial chunk loading effect has run
    updates,        \* history: number of position updates the frame handler completed
    pathCache,      \* PathfindingManager.pathCache: key -> [path (a PathResult), timestamp]
    lastPath,       \* the PathfindingManager call being returned to its caller (kind
                    \* "none": no call in progress)
    pathCalls,      \* history: number of findPath calls made
    component,      \* which game component is mounted: "Game" or "OptimizedGame"
    gameState,      \* the component's gameState: wave, gameStarted, betweenWaves, and of
                    \* enemies the length and the number alive
    qualitySettings,    \* PerformanceOptimizer.qualityLevel and .qualitySettings.maxEnemies
    spawned,        \* history: wave -> number of enemies the spawn effect created for it
    cleared,        \* history: what cleared betweenWaves since the wave counter last
                    \* went up ("none", "timer" or "enter"), and the waveTimer it saw
    playerPos,      \* EnhancedThirdPersonPlayer's playerPos ref: <<x, y, z>>
    enemy,          \* an EnhancedEnemy: its type, its enemyPos ref (position), its
                    \* currentPath, pathIndex, lastPathRequest and lastPlayerPosition
                    \* refs and its behaviorState
    frameClock      \* state.clock.elapsedTime of the last frame (milliseconds), and
                    \* history: the number of frame callbacks run and the last of them

indexVars == <<allObjects, spatialGrid, lastQuery, removedIds>>

genVars == <<rngPos, generated>>

cacheVars == <<loadedChunks, currentPlayerChunk, now, apiCalls>>

reactVars == <<playerPosition, lastPlayerChunk, loadedChunksState, mounted, preloaded, updates>>

pathVars == <<pathCache, lastPath, pathCalls>>

moveVars == <<playerPos, enemy, frameClock>>

waveVars == <<component, gameState, qualitySettings, spawned, cleared>>

gameVars == <<waveVars, moveVars>>

vars == <<allObjects, spatialGrid, lastQuery, removedIds, rngPos, generated,
          loadedChunks, currentPlayerChunk, now, apiCalls,
          playerPosition, lastPlayerChunk, loadedChunksState, mounted, preloaded, updates,
          pathCache, lastPath, pathCalls,
          component, gameState, qualitySettings, spawned, cleared,
          playerPos, enemy, frameClock>>

-----------------------------------------------------------------------------
(* Units and small helpers *)

\* model units per world unit: quarters (the modelled random values) and
\* tenths (the radii 0.8 and 1.2) are both whole numbers of units
Scale == 4 * 5

Abs(n) == IF n < 0 THEN -n ELSE n

Max2(a, b) == IF a >= b THEN a ELSE b

Sq(n) == n * n

\* a finite map with no entries
EmptyMap == [k \in {} |-> 0]

MapPut(f, k, v) == IF k \in DOMAIN f THEN [f EXCEPT ![k] = v] ELSE f @@ (k :> v)

MapDel(f, k) == [j \in (DOMAIN f) \ {k} |-> f[j]]

\* Array.prototype.filter
RECURSIVE SeqFilterOutId(_, _)
SeqFilterOutId(s, id) ==
    IF s = << >> THEN << >>
    ELSE IF Head(s).id = id THEN SeqFilterOutId(Tail(s), id)
         ELSE <<Head(s)>> \o SeqFilterOutId(Tail(s), id)

SeqToSet(s) == {s[i] : i \in 1..Len(s)}

-----------------------------------------------------------------------------
(* CollisionManager *)

\* constructor(cellSize = 8)
CellSize == 8 * Scale

\* worldToGrid: Math.floor(x / cellSize), Math.floor(z / cellSize)
WorldToGrid(x, z) == <<x \div CellSize, z \div CellSize>>

\* the nested loops "for gridX = min..max, for gridZ = min..max", in loop order
CellRange(minG, maxG) ==
    LET nx == maxG[1] - minG[1] + 1
        nz == maxG[2] - minG[2] + 1
    IN  IF nx <= 0 \/ nz <= 0 THEN << >>
        ELSE [k \in 1..(nx * nz) |->
                <<minG[1] + ((k - 1) \div nz), minG[2] + ((k - 1) % nz)>>]

\* mutation of CoveredCells: only the cell of the circle's min corner
CoveredCellsMinCornerOnly(b) ==
    LET minG == WorldToGrid(b.position[1] - b.radius, b.position[3] - b.radius)
    IN  CellRange(minG, minG)

\* the cell range add/removeCollisionObject compute from an obstacle's bounds
CoveredCells(b) ==
    CellRange(WorldToGrid(b.position[1] - b.radius, b.position[3] - b.radius),
              WorldToGrid(b.position[1] + b.radius, b.position[3] + b.radius))

\* createCollisionBounds: radius and height by feature type
TypeRadius(type, scale) ==
    CASE type = "tree" -> (8 * Scale * scale) \div 10
      [] type = "rock" -> (12 * Scale * scale) \div 10
      [] type = "shop" -> 4 * Scale
      [] type = "waterfall" -> 2 * Scale
      [] OTHER -> 1 * Scale

TypeHeight(type, scale) ==
    CASE type = "tree" -> 8 * Scale * scale
      [] type = "rock" -> 2 * Scale * scale
      [] type = "shop" -> 5 * Scale
      [] type = "waterfall" -> 15 * Scale
      [] OTHER -> 2 * Scale

CreateCollisionBounds(id, type, pos) ==
    [id |-> id, type |-> type, position |-> pos,
     radius |-> TypeRadius(type, 1), height |-> TypeHeight(type, 1)]

\* the index as one value, so that handlers which call several index
\* methods in a row can thread it through
Index == [allObjects |-> allObjects, spatialGrid |-> spatialGrid]

EmptyIndex == [allObjects |-> EmptyMap, spatialGrid |-> EmptyMap]

\* removeCollisionObject: strip the obstacle from one cell, delete the cell if empty
RECURSIVE StripFromCells(_, _, _)
StripFromCells(grid, cells, id) ==
    IF cells = << >> THEN grid
    ELSE LET key == Head(cells)
             g2 == IF key \in DOMAIN grid
                   THEN LET objs == SeqFilterOutId(grid[key], id)
                        IN  IF Len(objs) = 0 THEN MapDel(grid, key)
                            ELSE [grid EXCEPT ![key] = objs]
                   ELSE grid
         IN  StripFromCells(g2, Tail(cells), id)

\* mutation of RemoveCollisionObject: the cell is kept when its list becomes empty
RECURSIVE StripFromCellsKeepEmpty(_, _, _)
StripFromCellsKeepEmpty(grid, cells, id) ==
    IF cells = << >> THEN grid
    ELSE LET key == Head(cells)
             g2 == IF key \in DOMAIN grid
                   THEN [grid EXCEPT ![key] = SeqFilterOutId(grid[key], id)]
                   ELSE grid
         IN  StripFromCellsKeepEmpty(g2, Tail(cells), id)

RemoveCollisionObjectKeepEmpty(idx, id) ==
    IF id \notin DOMAIN idx.allObjects THEN idx
    ELSE LET bounds == idx.allObjects[id]
         IN  [allObjects  |-> MapDel(idx.allObjects, id),
              spatialGrid |-> StripFromCellsKeepEmpty(idx.spatialGrid, CoveredCells(bounds), id)]

\* mutation of RemoveCollisionObject: only the cell of the obstacle's center is cleaned
RemoveCollisionObjectCenterCell(idx, id) ==
    IF id \notin DOMAIN idx.allObjects THEN idx
    ELSE LET bounds == idx.allObjects[id]
         IN  [allObjects  |-> MapDel(idx.allObjects, id),
              spatialGrid |-> StripFromCells(idx.spatialGrid,
                                <<WorldToGrid(bounds.position[1], bounds.position[3])>>, id)]

\* removeCollisionObject(id)
RemoveCollisionObject(idx, id) ==
    IF id \notin DOMAIN idx.allObjects THEN idx
    ELSE LET bounds == idx.allObjects[id]
         IN  [allObjects  |-> MapDel(idx.allObjects, id),
              spatialGrid |-> StripFromCells(idx.spatialGrid, CoveredCells(bounds), id)]

\* getCell + cell.objects.push(bounds), for every covered cell
RECURSIVE PushToCells(_, _, _)
PushToCells(grid, cells, b) ==
    IF cells = << >> THEN grid
    ELSE LET key == Head(cells)
             old == IF key \in DOMAIN grid THEN grid[key] ELSE << >>
         IN  PushToCells(MapPut(grid, key, Append(old, b)), Tail(cells), b)

\* addCollisionObject without the removal of the obstacle registered under the id
AddCollisionObjectNoRemove(idx, b) ==
    [allObjects  |-> MapPut(idx.allObjects, b.id, b),
     spatialGrid |-> PushToCells(idx.spatialGrid, CoveredCells(b), b)]

\* addCollisionObject(bounds)
AddCollisionObject(idx, b) ==
    LET i1 == RemoveCollisionObject(idx, b.id)
    IN  [allObjects  |-> MapPut(i1.allObjects, b.id, b),
         spatialGrid |-> PushToCells(i1.spatialGrid, CoveredCells(b), b)]

\* clearAll
ClearAllIndex(idx) == EmptyIndex

\* clearArea(minX, minZ, maxX, maxZ): collect the ids, then remove each
RECURSIVE RemoveAll(_, _)
RemoveAll(idx, ids) ==
    IF ids = {} THEN idx
    ELSE LET id == CHOOSE i \in ids : TRUE
         IN  RemoveAll(RemoveCollisionObject(idx, id), ids \ {id})

AreaIds(idx, minX, minZ, maxX, maxZ) ==
    {id \in DOMAIN idx.allObjects :
        LET p == idx.allObjects[id].position
        IN  p[1] >= minX /\ p[1] <= maxX /\ p[3] >= minZ /\ p[3] <= maxZ}

ClearAreaIndex(idx, minX, minZ, maxX, maxZ) ==
    RemoveAll(idx, AreaIds(idx, minX, minZ, maxX, maxZ))

-----------------------------------------------------------------------------
(* CollisionManager queries.  A result is the CollisionResult's hit flag and
   object; distance and normal are derived from them and are left out. *)

NoObject == [id |-> <<"none">>, type |-> "none", position |-> <<0, 0, 0>>,
             radius |-> 0, height |-> 0]

Miss == [hit |-> FALSE, object |-> NoObject]

Hit(obj) == [hit |-> TRUE, object |-> obj]

\* for (const obj of list) { if (test) return hit } : the first element passing
FirstHit(list, Test(_)) ==
    IF \E i \in 1..Len(list) : Test(list[i])
    THEN LET i == CHOOSE k \in 1..Len(list) :
                    Test(list[k]) /\ \A j \in 1..(k - 1) : ~Test(list[j])
         IN  Hit(list[i])
    ELSE Miss

Dist2(x, z, obj) == Sq(x - obj.position[1]) + Sq(z - obj.position[3])

\* mutation of PointInside: the height slab is open at the obstacle's base
PointInsideOpenSlab(x, y, z, obj) ==
    /\ obj.radius >= 0
    /\ Sq(x - obj.position[1]) + Sq(z - obj.position[3]) <= Sq(obj.radius)
    /\ y - obj.position[2] > 0
    /\ y - obj.position[2] <= obj.height

\* distance2D <= obj.radius && dy >= 0 && dy <= obj.height
PointInside(x, y, z, obj) ==
    /\ obj.radius >= 0
    /\ Dist2(x, z, obj) <= Sq(obj.radius)
    /\ y - obj.position[2] >= 0
    /\ y - obj.position[2] <= obj.height

\* checkPointCollision without the test that skips excluded types
CheckPointCollisionNoExclude(idx, x, y, z, excludeTypes) ==
    LET key == WorldToGrid(x, z)
    IN  IF key \notin DOMAIN idx.spatialGrid THEN Miss
        ELSE FirstHit(idx.spatialGrid[key], LAMBDA obj : PointInside(x, y, z, obj))

\* checkPointCollision(x, y, z, excludeTypes)
CheckPointCollision(idx, x, y, z, excludeTypes) ==
    LET key == WorldToGrid(x, z)
    IN  IF key \notin DOMAIN idx.spatialGrid THEN Miss
        ELSE FirstHit(idx.spatialGrid[key],
                LAMBDA obj : obj.type \notin excludeTypes /\ PointInside(x, y, z, obj))

\* the objects of the cells of a range, in scan order (missing cells skipped)
RECURSIVE CellObjects(_, _)
CellObjects(grid, cells) ==
    IF cells = << >> THEN << >>
    ELSE (IF Head(cells) \in DOMAIN grid THEN grid[Head(cells)] ELSE << >>)
         \o CellObjects(grid, Tail(cells))

\* distance < radius + obj.radius
CirclesOverlap(x, z, radius, obj) ==
    /\ radius + obj.radius > 0
    /\ Dist2(x, z, obj) < Sq(radius + obj.radius)

\* mutation of CheckCircleCollision: only the cell of the query center is scanned
CheckCircleCollisionCenterCell(idx, x, z, radius, excludeTypes) ==
    FirstHit(CellObjects(idx.spatialGrid, <<WorldToGrid(x, z)>>),
             LAMBDA obj : obj.type \notin excludeTypes /\ CirclesOverlap(x, z, radius, obj))

\* checkCircleCollision(x, z, radius, excludeTypes)
CheckCircleCollision(idx, x, z, radius, excludeTypes) ==
    LET cells == CellRange(WorldToGrid(x - radius, z - radius),
                           WorldToGrid(x + radius, z + radius))
    IN  FirstHit(CellObjects(idx.spatialGrid, cells),
                 LAMBDA obj : obj.type \notin excludeTypes /\ CirclesOverlap(x, z, radius, obj))

\* Math.ceil(Math.sqrt(d2) / cellSize): the least n with (n * cellSize)^2 >= d2
RECURSIVE CeilSqrtOver(_, _, _)
CeilSqrtOver(d2, unit, n) ==
    IF Sq(n * unit) >= d2 THEN n ELSE CeilSqrtOver(d2, unit, n + 1)

SweepSteps(fromX, fromZ, toX, toZ) ==
    Max2(3, CeilSqrtOver(Sq(toX - fromX) + Sq(toZ - fromZ), CellSize, 0))

\* from + (to - from) * (i / steps), cut to the fixed-point grid
SweepSample(from, to, i, steps) == from + (((to - from) * i) \div steps)

\* checkSweptCollision(fromX, fromZ, toX, toZ, radius, excludeTypes)
RECURSIVE SweptFrom(_, _, _, _, _, _, _, _, _)
SweptFrom(idx, fromX, fromZ, toX, toZ, radius, excludeTypes, i, steps) ==
    IF i > steps THEN Miss
    ELSE LET r == CheckCircleCollision(idx, SweepSample(fromX, toX, i, steps),
                                       SweepSample(fromZ, toZ, i, steps),
                                       radius, excludeTypes)
         IN  IF r.hit THEN r
             ELSE SweptFrom(idx, fromX, fromZ, toX, toZ, radius, excludeTypes, i + 1, steps)

CheckSweptCollision(idx, fromX, fromZ, toX, toZ, radius, excludeTypes) ==
    SweptFrom(idx, fromX, fromZ, toX, toZ, radius, excludeTypes, 0,
              SweepSteps(fromX, fromZ, toX, toZ))

\* getObjectsInRadius without the seen set
RECURSIVE CollectInRadiusNoSeen(_, _, _, _, _)
CollectInRadiusNoSeen(list, seen, x, z, radius) ==
    IF list = << >> THEN << >>
    ELSE LET obj == Head(list)
         IN  (IF radius + obj.radius >= 0
                 /\ Dist2(x, z, obj) <= Sq(radius + obj.radius)
              THEN <<obj>> ELSE << >>)
             \o CollectInRadiusNoSeen(Tail(list), seen, x, z, radius)

\* getObjectsInRadius(x, z, radius): each id is looked at once (the seen set),
\* and kept when distance <= radius + obj.radius
RECURSIVE CollectInRadius(_, _, _, _, _)
CollectInRadius(list, seen, x, z, radius) ==
    IF list = << >> THEN << >>
    ELSE LET obj == Head(list)
         IN  IF obj.id \in seen THEN CollectInRadius(Tail(list), seen, x, z, radius)
             ELSE (IF radius + obj.radius >= 0
                      /\ Dist2(x, z, obj) <= Sq(radius + obj.radius)
                   THEN <<obj>> ELSE << >>)
                  \o CollectInRadius(Tail(list), seen \cup {obj.id}, x, z, radius)

GetObjectsInRadius(idx, x, z, radius) ==
    LET cells == CellRange(WorldToGrid(x - radius, z - radius),
                           WorldToGrid(x + radius, z + radius))
    IN  CollectInRadius(CellObjects(idx.spatialGrid, cells), {}, x, z, radius)

\* the grid after a lookup that creates the cell it does not find, as
\* getCell(gridX, gridZ) does
GridAfterGetCell(grid, key) ==
    IF key \in DOMAIN grid THEN grid ELSE MapPut(grid, key, << >>)

\* the grid after this.spatialGrid.get(key), the lookup of the four queries:
\* Map.get leaves the map as it is
GridAfterGet(grid, key) == grid

\* the grid after the lookups of a set of cell keys
RECURSIVE GridAfterReads(_, _)
GridAfterReads(grid, keys) ==
    IF keys = {} THEN grid
    ELSE LET key == CHOOSE k \in keys : TRUE
         IN  GridAfterReads(GridAfterGet(grid, key), keys \ {key})

\* the index after a query that looked up the cells keys
AfterReads(idx, keys) == [idx EXCEPT !.spatialGrid = GridAfterReads(@, keys)]

\* the cell checkPointCollision looks up
PointReads(x, z) == {WorldToGrid(x, z)}

\* the cells checkCircleCollision looks up: the cells of the range in scan
\* order, up to the cell in which it returns a hit
CircleReads(idx, x, z, radius, excludeTypes) ==
    LET cells == CellRange(WorldToGrid(x - radius, z - radius),
                           WorldToGrid(x + radius, z + radius))
        HitIn(k) == FirstHit(CellObjects(idx.spatialGrid, <<cells[k]>>),
                             LAMBDA obj : obj.type \notin excludeTypes
                                             /\ CirclesOverlap(x, z, radius, obj)).hit
    IN  IF \E k \in 1..Len(cells) : HitIn(k)
        THEN {cells[j] : j \in 1..(CHOOSE k \in 1..Len(cells) :
                                      HitIn(k) /\ \A i \in 1..(k - 1) : ~HitIn(i))}
        ELSE SeqToSet(cells)

\* the cells checkSweptCollision looks up: those of the circle query at each
\* sample, up to the sample that hits
RECURSIVE SweptReadsFrom(_, _, _, _, _, _, _, _, _)
SweptReadsFrom(idx, fromX, fromZ, toX, toZ, radius, excludeTypes, i, steps) ==
    IF i > steps THEN {}
    ELSE LET x == SweepSample(fromX, toX, i, steps)
             z == SweepSample(fromZ, toZ, i, steps)
         IN  CircleReads(idx, x, z, radius, excludeTypes)
               \cup (IF CheckCircleCollision(idx, x, z, radius, excludeTypes).hit THEN {}
                     ELSE SweptReadsFrom(idx, fromX, fromZ, toX, toZ, radius,
                                         excludeTypes, i + 1, steps))

SweptReads(idx, fromX, fromZ, toX, toZ, radius, excludeTypes) ==
    SweptReadsFrom(idx, fromX, fromZ, toX, toZ, radius, excludeTypes, 0,
                   SweepSteps(fromX, fromZ, toX, toZ))

\* the cells getObjectsInRadius looks up: the whole range
RadiusReads(x, z, radius) ==
    SeqToSet(CellRange(WorldToGrid(x - radius, z - radius),
                       WorldToGrid(x + radius, z + radius)))

-----------------------------------------------------------------------------
(* Specification SpecIndex: a CollisionManager driven by arbitrary calls *)

\* number of distinct obstacle ids the callers use
NumObstacleIds == 2

ObstacleIds == {<<"obj", i>> : i \in 1..NumObstacleIds}

ObstacleTypes == {"tree", "rock", "shop"}

\* obstacle centers: 7.5 and 8.5 world units lie on either side of the cell
\* border at 8, so circles span two cells and overlap each other
InXs == {150, 170}
InZs == {40}
InYs == {0, 30}

\* query positions
QueryZs == {40, 170}

ObstacleInputs ==
    {CreateCollisionBounds(id, t, <<x, y, z>>) :
        id \in ObstacleIds, t \in ObstacleTypes, x \in InXs, y \in InYs, z \in InZs}

\* excludeTypes as the callers pass it: none, climbing, flying
ExcludeSets == {{}, {"rock"}, {"tree", "rock", "shop"}}

QueryRadii == {10, 100}

\* clearArea rectangles <<minX, minZ, maxX, maxZ>>
ClearRects == {<<0, 0, 159, 159>>, <<160, 0, 319, 159>>}

NoQuery == [kind |-> "none", from |-> <<0, 0, 0>>, to |-> <<0, 0, 0>>, radius |-> 0,
            excludeTypes |-> {}, result |-> Miss, objects |-> << >>]

\* a CollisionManager after its constructor, no call in progress
IndexAtStart ==
    /\ allObjects = EmptyMap
    /\ spatialGrid = EmptyMap
    /\ lastQuery = NoQuery
    /\ removedIds = {}

\* the return value of a call that returns nothing the model follows
NoResult == [chunksToLoad |-> << >>, chunksToUnload |-> << >>]

\* a ChunkManager after its constructor
CacheAtStart ==
    /\ loadedChunks = << >>
    /\ currentPlayerChunk = <<0, 0>>
    /\ now = 0
    /\ apiCalls = [count |-> 0, last |-> "none", args |-> << >>, result |-> NoResult]

\* OptimizedDynamicTerrain after its first render, inside a Game after its first render
TerrainAtStart ==
    /\ playerPosition = <<0, 0>>
    /\ lastPlayerChunk = <<0, 0>>
    /\ loadedChunksState = << >>
    /\ mounted = << >>
    /\ preloaded = FALSE
    /\ updates = 0

\* a PathResult for "no path": { found: false, path: [], length: 0, cost: 0 }
NotFound == [found |-> FALSE, path |-> << >>, cost |-> 0]

\* a field of the call record that has no value
NoValue == 0 - 1

NoRequest == [startX |-> 0, startZ |-> 0, goalX |-> 0, goalZ |-> 0, entityRadius |-> 0,
              maxDistance |-> 0, allowPartialPath |-> FALSE, entityType |-> "none"]

\* no PathfindingManager call in progress.  The record of a call: its request,
\* the PathResult returned, the clock reading of the cache test, the age of
\* the cache entry found under the key (NoValue: none), what answered
\* ("cache" or "search"), the nodes the search loop took from the open set,
\* whether the loop of the call came to its end, the node the search was aimed
\* at (<< >>: no search), the nodes it expanded (closedSet), whether it took
\* the target from the open set, whether it replaced the parent of a node it
\* had seen before, and for smoothPath the path it returned
NoPath == [kind |-> "none", request |-> NoRequest, result |-> NotFound,
           checkedAt |-> NoValue, entryAge |-> NoValue, served |-> "none",
           searchedNodes |-> 0, ended |-> TRUE, target |-> << >>, expanded |-> {},
           reached |-> FALSE, replaced |-> FALSE, smoothed |-> << >>]

\* a PathfindingManager after its constructor
PathAtStart ==
    /\ pathCache = EmptyMap
    /\ lastPath = NoPath
    /\ pathCalls = 0

\* the quality settings of a PerformanceOptimizer after its constructor:
\* qualityLevel 2, DEFAULT_QUALITY_SETTINGS
DefaultQuality == [qualityLevel |-> 2, maxEnemies |-> 50]

\* the gameState of a game component at its first render
GameStateAtStart ==
    [wave |-> 1, gameStarted |-> FALSE, betweenWaves |-> FALSE, waveTimer |-> 60,
     enemies |-> [length |-> 0, alive |-> 0]]

\* behaviorState and the refs of an EnhancedEnemy at its first render
EnemyAtMount(type, position, playerAt) ==
    [type |-> type, position |-> position, currentPath |-> << >>, pathIndex |-> 0,
     lastPathRequest |-> 0, lastPlayerPosition |-> playerAt,
     lastSpecialAttack |-> 0, isCharging |-> FALSE, chargeDirection |-> <<0, 0>>,
     targetPosition |-> <<0, 0>>, jumpCooldown |-> 0]

\* the player at the origin, an enemy there, and no frame run
MoversAtStart ==
    /\ playerPos = <<0, 0, 0>>
    /\ enemy = EnemyAtMount("ape", <<0, 0, 0>>, <<0, 0, 0>>)
    /\ frameClock = [elapsedTime |-> 0, frames |-> 0, last |-> "none"]

\* betweenWaves has not been cleared
NotCleared == [by |-> "none", waveTimer |-> 0]

\* a Game component at its first render
GameAtStart ==
    /\ component = "Game"
    /\ gameState = GameStateAtStart
    /\ qualitySettings = DefaultQuality
    /\ spawned = EmptyMap
    /\ cleared = NotCleared
    /\ MoversAtStart

InitIndex ==
    /\ IndexAtStart
    /\ PathAtStart
    /\ GameAtStart
    /\ rngPos = 1
    /\ generated = << >>
    /\ CacheAtStart
    /\ TerrainAtStart

SetIndex(idx) ==
    /\ allObjects' = idx.allObjects
    /\ spatialGrid' = idx.spatialGrid

\* JavaScript runs one call at a time: a call starts when no other is in progress
Idle == lastQuery.kind = "none"

IxAdd ==
    \E b \in ObstacleInputs :
        /\ Idle
        /\ SetIndex(AddCollisionObject(Index, b))
        /\ removedIds' = removedIds \ {b.id}
        /\ lastQuery' = NoQuery
        /\ UNCHANGED <<gameVars, pathVars, genVars, cacheVars, reactVars>>

IxRemove ==
    \E id \in ObstacleIds :
        /\ Idle
        /\ SetIndex(RemoveCollisionObject(Index, id))
        /\ removedIds' = removedIds \cup ({id} \cap DOMAIN allObjects)
        /\ lastQuery' = NoQuery
        /\ UNCHANGED <<gameVars, pathVars, genVars, cacheVars, reactVars>>

IxClearArea ==
    \E r \in ClearRects :
        /\ Idle
        /\ SetIndex(ClearAreaIndex(Index, r[1], r[2], r[3], r[4]))
        /\ removedIds' = removedIds \cup AreaIds(Index, r[1], r[2], r[3], r[4])
        /\ lastQuery' = NoQuery
        /\ UNCHANGED <<gameVars, pathVars, genVars, cacheVars, reactVars>>

IxClearAll ==
    /\ Idle
    /\ SetIndex(ClearAllIndex(Index))
    /\ removedIds' = removedIds \cup DOMAIN allObjects
    /\ lastQuery' = NoQuery
    /\ UNCHANGED <<gameVars, pathVars, genVars, cacheVars, reactVars>>

IxQueryPoint ==
    \E x \in InXs, y \in InYs, z \in InZs, ex \in ExcludeSets :
        /\ Idle
        /\ lastQuery' = [NoQuery EXCEPT !.kind = "point", !.from = <<x, y, z>>,
                            !.excludeTypes = ex,
                            !.result = CheckPointCollision(Index, x, y, z, ex)]
        /\ UNCHANGED <<gameVars, pathVars, allObjects, spatialGrid, removedIds, genVars, cacheVars, reactVars>>

IxQueryCircle ==
    \E x \in InXs, z \in QueryZs, r \in QueryRadii, ex \in ExcludeSets :
        /\ Idle
        /\ lastQuery' = [NoQuery EXCEPT !.kind = "circle", !.from = <<x, 0, z>>,
                            !.radius = r, !.excludeTypes = ex,
                            !.result = CheckCircleCollision(Index, x, z, r, ex)]
        /\ UNCHANGED <<gameVars, pathVars, allObjects, spatialGrid, removedIds, genVars, cacheVars, reactVars>>

\* swept queries <<fromX, fromZ, toX, toZ>>: short moves between the query
\* positions, and a move three cells long that passes the obstacle centers
SweptInputs ==
    {s \in InXs \X QueryZs \X InXs \X QueryZs : s[1] # s[3]}
        \cup {<<70, 40, 70 + 3 * CellSize, 40>>}

IxQuerySwept ==
    \E s \in SweptInputs, ex \in {{}, {"rock"}} :
        /\ Idle
        /\ lastQuery' = [NoQuery EXCEPT !.kind = "swept", !.from = <<s[1], 0, s[2]>>,
                            !.to = <<s[3], 0, s[4]>>, !.radius = 10, !.excludeTypes = ex,
                            !.result = CheckSweptCollision(Index, s[1], s[2], s[3], s[4],
                                                           10, ex)]
        /\ UNCHANGED <<gameVars, pathVars, allObjects, spatialGrid, removedIds, genVars, cacheVars, reactVars>>

IxQueryRadius ==
    \E x \in InXs, z \in QueryZs, r \in QueryRadii :
        /\ Idle
        /\ lastQuery' = [NoQuery EXCEPT !.kind = "radius", !.from = <<x, 0, z>>,
                            !.radius = r,
                            !.objects = GetObjectsInRadius(Index, x, z, r)]
        /\ UNCHANGED <<gameVars, pathVars, allObjects, spatialGrid, removedIds, genVars, cacheVars, reactVars>>

\* the query call returns
IxReturn ==
    /\ ~Idle
    /\ lastQuery' = NoQuery
    /\ UNCHANGED <<gameVars, pathVars, allObjects, spatialGrid, removedIds, genVars, cacheVars, reactVars>>

NextIndex ==
    \/ IxAdd
    \/ IxRemove
    \/ IxClearArea
    \/ IxClearAll
    \/ IxQueryPoint
    \/ IxQueryCircle
    \/ IxQuerySwept
    \/ IxQueryRadius
    \/ IxReturn

SpecIndex == InitIndex /\ [][NextIndex]_vars

-----------------------------------------------------------------------------
(* Math.random and SimplexNoise *)

\* Math.random() is a generator with hidden state.  The model draws from a
\* fixed cycle of values k, each standing for k/4, and the hidden state is the
\* place in the cycle; the place at start-up is not known.
RandomStream == <<0, 2, 1, 3, 3, 0, 1>>

RandAt(p) == RandomStream[p]

NextRng(p) == (p % Len(RandomStream)) + 1

\* Math.floor(Math.random() * n) for the draw k/4
FloorTimes(k, n) == (k * n) \div 4

\* SimplexNoise.noise2D(x, y) is a pure function of the seed and its arguments
\* with values in [-1, 1] and noise2D(0, 0) = 0; its values come from a
\* permutation shuffled with Math.sin, which integer arithmetic cannot
\* reproduce.  The model puts a fixed pure function of the arguments in its
\* place: arguments in 1/400 world units, value in thousandths.
Noise2D(a, b) == ((a * 8 + b * 5 + 1000) % 2001) - 1000

\* noise2D(coord.x * 0.1, coord.z * 0.1)
BiomeNoise(coord) == Noise2D(coord[1] * 40, coord[2] * 40)

\* noise2D(coord.x * 0.3, coord.z * 0.3)
WaterfallNoise(coord) == Noise2D(coord[1] * 120, coord[2] * 120)

\* Math.max(0, noise2D(x * 0.05, z * 0.05) * 2), in model units
HeightAt(x, z) == Max2(0, (Noise2D(x, z) * 2 * Scale) \div 1000)

-----------------------------------------------------------------------------
(* TerrainGenerator *)

\* chunkSize as Game passes it to OptimizedDynamicTerrain
ChunkSize == 16 * Scale

\* a field a feature does not have (scale of a shop, rotation of a waterfall)
Absent == -1

\* biome of a chunk: distance from origin and noise
BiomeOf(coord) ==
    LET biomeNoise == BiomeNoise(coord)
    IN  IF Sq(coord[1]) + Sq(coord[2]) < 4 /\ biomeNoise > -300 THEN "clearing"
        ELSE IF biomeNoise > 300 THEN "dense_forest"
        ELSE IF biomeNoise < -500 THEN "rocky"
        ELSE "forest"

\* Math.cos / Math.sin of (k/4) * 2 * PI
CosQ(k) == CASE k = 0 -> 1 [] k = 1 -> 0 [] k = 2 -> -1 [] OTHER -> 0

SinQ(k) == CASE k = 0 -> 0 [] k = 1 -> 1 [] k = 2 -> 0 [] OTHER -> -1

\* the candidate loop without the test of the distance to the points placed
RECURSIVE PoissonAttemptsUnspaced(_, _, _, _, _)
PoissonAttemptsUnspaced(points, point, area, i, p) ==
    IF i >= 30 THEN [found |-> FALSE, point |-> <<0, 0, 0>>, rng |-> p]
    ELSE LET angle == RandAt(p)
             p1 == NextRng(p)
             distance == area.minDistance + (RandAt(p1) * area.minDistance) \div 4
             p2 == NextRng(p1)
             newX == point[1] + CosQ(angle) * distance
             newZ == point[3] + SinQ(angle) * distance
             inBounds == /\ newX >= area.startX /\ newX < area.startX + area.width
                         /\ newZ >= area.startZ /\ newZ < area.startZ + area.height
         IN  IF inBounds
             THEN [found |-> TRUE, point |-> <<newX, 0, newZ>>, rng |-> p2]
             ELSE PoissonAttemptsUnspaced(points, point, area, i + 1, p2)

\* poissonDiskSampling, the loop "for (let i = 0; i < 30; i++)": up to 30
\* candidates around point, two draws (angle, distance) each
RECURSIVE PoissonAttempts(_, _, _, _, _)
PoissonAttempts(points, point, area, i, p) ==
    IF i >= 30 THEN [found |-> FALSE, point |-> <<0, 0, 0>>, rng |-> p]
    ELSE LET angle == RandAt(p)
             p1 == NextRng(p)
             distance == area.minDistance + (RandAt(p1) * area.minDistance) \div 4
             p2 == NextRng(p1)
             newX == point[1] + CosQ(angle) * distance
             newZ == point[3] + SinQ(angle) * distance
             inBounds == /\ newX >= area.startX /\ newX < area.startX + area.width
                         /\ newZ >= area.startZ /\ newZ < area.startZ + area.height
             valid == \A k \in 1..Len(points) :
                         ~(Sq(newX - points[k][1]) + Sq(newZ - points[k][3])
                              < Sq(area.minDistance))
         IN  IF inBounds /\ valid
             THEN [found |-> TRUE, point |-> <<newX, 0, newZ>>, rng |-> p2]
             ELSE PoissonAttempts(points, point, area, i + 1, p2)

\* activeList.splice(randomIndex, 1), randomIndex counted from 0
SpliceOut(list, randomIndex) ==
    [k \in 1..(Len(list) - 1) |-> IF k <= randomIndex THEN list[k] ELSE list[k + 1]]

\* poissonDiskSampling, the loop "while (activeList.length > 0 && points.length < maxPoints)"
RECURSIVE PoissonLoop(_, _, _, _)
PoissonLoop(points, activeList, area, p) ==
    IF Len(activeList) = 0 \/ Len(points) >= area.maxPoints
    THEN [points |-> points, rng |-> p]
    ELSE LET randomIndex == FloorTimes(RandAt(p), Len(activeList))
             pointIndex == activeList[randomIndex + 1]
             try == PoissonAttempts(points, points[pointIndex + 1], area, 0, NextRng(p))
         IN  IF try.found
             THEN PoissonLoop(Append(points, try.point),
                              Append(activeList, Len(points)), area, try.rng)
             ELSE PoissonLoop(points, SpliceOut(activeList, randomIndex), area, try.rng)

\* poissonDiskSampling(startX, startZ, width, height, minDistance, maxPoints)
PoissonDiskSampling(startX, startZ, width, height, minDistance, maxPoints, p) ==
    LET area == [startX |-> startX, startZ |-> startZ, width |-> width,
                 height |-> height, minDistance |-> minDistance, maxPoints |-> maxPoints]
        initial == <<startX + width \div 2, 0, startZ + height \div 2>>
    IN  PoissonLoop(<<initial>>, <<0>>, area, p)

\* generateTrees: treeCount and treeSpacing by biome
TreeCount(biome, k) ==
    CASE biome = "clearing" -> 3 + FloorTimes(k, 4)
      [] biome = "dense_forest" -> 15 + FloorTimes(k, 10)
      [] biome = "rocky" -> 2 + FloorTimes(k, 3)
      [] OTHER -> 8 + FloorTimes(k, 6)

TreeSpacing(biome) ==
    CASE biome = "clearing" -> 15 * Scale
      [] biome = "dense_forest" -> 8 * Scale
      [] biome = "rocky" -> 20 * Scale
      [] OTHER -> 12 * Scale

\* trees.forEach: one feature per sampled point, two draws (scale, rotation) each.
\* scale is in hundredths, rotation in quarter turns.
RECURSIVE TreeFeatures(_, _, _, _, _)
TreeFeatures(trees, index, worldX, worldZ, p) ==
    IF index >= Len(trees) THEN [features |-> << >>, rng |-> p]
    ELSE LET pos == trees[index + 1]
             f == [id |-> <<"tree", worldX, worldZ, index>>, type |-> "tree",
                   position |-> <<pos[1], HeightAt(pos[1], pos[3]), pos[3]>>,
                   scale |-> 80 + RandAt(p) * 10,
                   rotation |-> RandAt(NextRng(p))]
             rest == TreeFeatures(trees, index + 1, worldX, worldZ, NextRng(NextRng(p)))
         IN  [features |-> <<f>> \o rest.features, rng |-> rest.rng]

\* generateTrees(features, worldX, worldZ, biome)
GenerateTrees(worldX, worldZ, biome, p) ==
    LET treeCount == TreeCount(biome, RandAt(p))
        trees == PoissonDiskSampling(worldX, worldZ, ChunkSize, ChunkSize,
                                     TreeSpacing(biome), treeCount, NextRng(p))
    IN  TreeFeatures(trees.points, 0, worldX, worldZ, trees.rng)

\* generateRocks: rockCount by biome (no draw in a clearing)
RockCount(biome, k) ==
    CASE biome = "rocky" -> 5 + FloorTimes(k, 8)
      [] biome = "forest" -> 1 + FloorTimes(k, 3)
      [] biome = "dense_forest" -> 2 + FloorTimes(k, 4)
      [] OTHER -> 0

\* generateRocks, the loop: four draws (x, z, scale, rotation) per rock
RECURSIVE RockFeatures(_, _, _, _, _)
RockFeatures(i, rockCount, worldX, worldZ, p) ==
    IF i >= rockCount THEN [features |-> << >>, rng |-> p]
    ELSE LET x == worldX + (RandAt(p) * ChunkSize) \div 4
             p1 == NextRng(p)
             z == worldZ + (RandAt(p1) * ChunkSize) \div 4
             p2 == NextRng(p1)
             f == [id |-> <<"rock", worldX, worldZ, i>>, type |-> "rock",
                   position |-> <<x, HeightAt(x, z), z>>,
                   scale |-> 50 + RandAt(p2) * 25,
                   rotation |-> RandAt(NextRng(p2))]
             rest == RockFeatures(i + 1, rockCount, worldX, worldZ, NextRng(NextRng(p2)))
         IN  [features |-> <<f>> \o rest.features, rng |-> rest.rng]

\* generateRocks(features, worldX, worldZ, biome)
GenerateRocks(worldX, worldZ, biome, p) ==
    IF biome = "clearing" THEN [features |-> << >>, rng |-> p]
    ELSE RockFeatures(0, RockCount(biome, RandAt(p)), worldX, worldZ, NextRng(p))

\* JavaScript's remainder: the sign of the dividend
JsRem(a, n) == IF a >= 0 THEN a % n ELSE -((-a) % n)

\* hasShopAt without the test that excludes the origin
HasShopAtOriginToo(coord) ==
    /\ JsRem(coord[1], 5) = 0
    /\ JsRem(coord[2], 5) = 0

\* hasShopAt(coord)
HasShopAt(coord) ==
    /\ JsRem(coord[1], 5) = 0
    /\ JsRem(coord[2], 5) = 0
    /\ (coord[1] # 0 \/ coord[2] # 0)

\* generateShop(features, worldX, worldZ): one draw (rotation)
GenerateShop(worldX, worldZ, p) ==
    [features |-> <<[id |-> <<"shop", worldX, worldZ>>, type |-> "shop",
                     position |-> <<worldX + ChunkSize \div 2, 0, worldZ + ChunkSize \div 2>>,
                     scale |-> Absent,
                     rotation |-> RandAt(p)]>>,
     rng |-> NextRng(p)]

\* generateSpecialFeatures: a waterfall when the noise is above 0.7 and a draw
\* is below 0.1 (the draw is made only when the noise test passes)
GenerateSpecialFeatures(worldX, worldZ, coord, p) ==
    IF WaterfallNoise(coord) > 700
    THEN IF RandAt(p) * 10 < 4
         THEN LET p1 == NextRng(p)
                  x == worldX + (RandAt(p1) * ChunkSize) \div 4
                  z == worldZ + (RandAt(NextRng(p1)) * ChunkSize) \div 4
              IN  [features |-> <<[id |-> <<"waterfall", worldX, worldZ>>,
                                   type |-> "waterfall",
                                   position |-> <<x, 10 * Scale, z>>,
                                   scale |-> Absent, rotation |-> Absent]>>,
                   rng |-> NextRng(NextRng(p1))]
         ELSE [features |-> << >>, rng |-> NextRng(p)]
    ELSE [features |-> << >>, rng |-> p]

\* generateChunk(coord): the ChunkData and the state Math.random is left in
GenerateChunk(coord, p) ==
    LET worldX == coord[1] * ChunkSize
        worldZ == coord[2] * ChunkSize
        biome == BiomeOf(coord)
        trees == GenerateTrees(worldX, worldZ, biome, p)
        rocks == GenerateRocks(worldX, worldZ, biome, trees.rng)
        shop == IF HasShopAt(coord) THEN GenerateShop(worldX, worldZ, rocks.rng)
                ELSE [features |-> << >>, rng |-> rocks.rng]
        special == GenerateSpecialFeatures(worldX, worldZ, coord, shop.rng)
    IN  [data |-> [coord |-> coord,
                   features |-> trees.features \o rocks.features
                                   \o shop.features \o special.features,
                   biome |-> biome],
         rng |-> special.rng]

-----------------------------------------------------------------------------
(* ChunkManager *)

\* renderRadius: chunks kept loaded around the player (Chebyshev distance).
\* The game runs with 4; the model follows a smaller window.
RenderRadius == 1

\* maxCachedChunks: the ceiling of cleanupOldChunks.  The game runs with 25
\* against a window of 81 chunks; the model keeps the ceiling below the
\* window in the same way.
MaxCachedChunks == 3

\* worldToChunk(worldX, worldZ)
WorldToChunk(worldX, worldZ) == <<worldX \div ChunkSize, worldZ \div ChunkSize>>

\* the double loop "for x = c.x - r .. c.x + r, for z = c.z - r .. c.z + r"
\* as the sequence of coordinates it visits
ChunkRange(center, radius) ==
    LET w == 2 * radius + 1
    IN  [k \in 1..(w * w) |->
            <<center[1] - radius + (k - 1) \div w, center[2] - radius + ((k - 1) % w)>>]

\* loadedChunks is a Map: a sequence of entries in insertion order, one per key
HasChunk(chunks, key) == \E k \in 1..Len(chunks) : chunks[k].key = key

ChunkKeys(chunks) == {chunks[k].key : k \in 1..Len(chunks)}

ChunkEntry(chunks, key) == chunks[CHOOSE k \in 1..Len(chunks) : chunks[k].key = key]

\* Map.delete(key)
RECURSIVE DeleteChunk(_, _)
DeleteChunk(chunks, key) ==
    IF chunks = << >> THEN << >>
    ELSE IF Head(chunks).key = key THEN Tail(chunks)
         ELSE <<Head(chunks)>> \o DeleteChunk(Tail(chunks), key)

\* getChunk that calls the generator for a resident chunk too
GetChunkRegenerating(cache, coord, t) ==
    LET g == GenerateChunk(coord, cache.rng)
    IN  IF ~HasChunk(cache.chunks, coord)
        THEN [chunks |-> Append(cache.chunks,
                                [key |-> coord, data |-> g.data, lastAccessed |-> t]),
              rng |-> g.rng]
        ELSE [chunks |-> [k \in 1..Len(cache.chunks) |->
                             IF cache.chunks[k].key = coord
                             THEN [key |-> coord, data |-> g.data, lastAccessed |-> t]
                             ELSE cache.chunks[k]],
              rng |-> g.rng]

\* getChunk(coord) at clock reading t: generate and insert, or refresh the
\* access time.  cache is [chunks, rng].
GetChunk(cache, coord, t) ==
    IF ~HasChunk(cache.chunks, coord)
    THEN LET g == GenerateChunk(coord, cache.rng)
         IN  [chunks |-> Append(cache.chunks,
                                [key |-> coord, data |-> g.data, lastAccessed |-> t]),
              rng |-> g.rng]
    ELSE [chunks |-> [k \in 1..Len(cache.chunks) |->
                         IF cache.chunks[k].key = coord
                         THEN [cache.chunks[k] EXCEPT !.lastAccessed = t]
                         ELSE cache.chunks[k]],
          rng |-> cache.rng]

\* getChunk for each coordinate of a list, in order.  The loops of this model
\* are written as a loop state (here the cache and the coordinates still to
\* visit) and a step on it.
RECURSIVE GetChunksLoop(_, _)
GetChunksLoop(st, t) ==
    IF st.rest = << >> THEN st.cache
    ELSE GetChunksLoop([cache |-> GetChunk(st.cache, Head(st.rest), t),
                        rest |-> Tail(st.rest)], t)

GetChunks(cache, coords, t) == GetChunksLoop([cache |-> cache, rest |-> coords], t)

\* preloadArea(centerX, centerZ, radius)
PreloadArea(cache, centerX, centerZ, radius, t) ==
    GetChunks(cache, ChunkRange(WorldToChunk(centerX, centerZ), radius), t)

\* updatePlayerPosition, "chunksToLoad": required and not loaded, in loop order
ChunksToLoad(chunks, required) ==
    SelectSeq(required, LAMBDA c : ~HasChunk(chunks, c))

\* updatePlayerPosition, "chunksToUnload": loaded and not required, in Map order
ChunksToUnload(chunks, required) ==
    LET req == {required[k] : k \in 1..Len(required)}
        notRequired == SelectSeq(chunks, LAMBDA e : e.key \notin req)
    IN  [k \in 1..Len(notRequired) |-> notRequired[k].key]

\* updatePlayerPosition with the required window one row wide (z fixed)
UpdatePlayerPositionRowOnly(chunks, current, worldX, worldZ) ==
    LET newPlayerChunk == WorldToChunk(worldX, worldZ)
        required == SelectSeq(ChunkRange(newPlayerChunk, RenderRadius),
                              LAMBDA c : c[2] = newPlayerChunk[2])
    IN  IF newPlayerChunk = current
        THEN [currentPlayerChunk |-> current,
              chunksToLoad |-> << >>, chunksToUnload |-> << >>]
        ELSE [currentPlayerChunk |-> newPlayerChunk,
              chunksToLoad |-> ChunksToLoad(chunks, required),
              chunksToUnload |-> ChunksToUnload(chunks, required)]

\* updatePlayerPosition that reports every resident chunk for unloading
UpdatePlayerPositionUnloadAll(chunks, current, worldX, worldZ) ==
    LET newPlayerChunk == WorldToChunk(worldX, worldZ)
        required == ChunkRange(newPlayerChunk, RenderRadius)
    IN  IF newPlayerChunk = current
        THEN [currentPlayerChunk |-> current,
              chunksToLoad |-> << >>, chunksToUnload |-> << >>]
        ELSE [currentPlayerChunk |-> newPlayerChunk,
              chunksToLoad |-> ChunksToLoad(chunks, required),
              chunksToUnload |-> [k \in 1..Len(chunks) |-> chunks[k].key]]

\* updatePlayerPosition(worldX, worldZ)
UpdatePlayerPosition(chunks, current, worldX, worldZ) ==
    LET newPlayerChunk == WorldToChunk(worldX, worldZ)
        required == ChunkRange(newPlayerChunk, RenderRadius)
    IN  IF newPlayerChunk = current
        THEN [currentPlayerChunk |-> current,
              chunksToLoad |-> << >>, chunksToUnload |-> << >>]
        ELSE [currentPlayerChunk |-> newPlayerChunk,
              chunksToLoad |-> ChunksToLoad(chunks, required),
              chunksToUnload |-> ChunksToUnload(chunks, required)]

\* getLoadedChunksInRange()
GetLoadedChunksInRange(chunks, current) ==
    LET inRange == SelectSeq(ChunkRange(current, RenderRadius),
                             LAMBDA c : HasChunk(chunks, c))
    IN  [k \in 1..Len(inRange) |-> ChunkEntry(chunks, inRange[k]).data]

\* unloadChunk that drops the oldest entry when the key is not resident
UnloadChunkOrOldest(chunks, key) ==
    IF HasChunk(chunks, key) \/ chunks = << >> THEN DeleteChunk(chunks, key)
    ELSE Tail(chunks)

\* unloadChunk(key)
UnloadChunk(chunks, key) == DeleteChunk(chunks, key)

\* unloadChunk for each key of a list
RECURSIVE UnloadChunksLoop(_)
UnloadChunksLoop(st) ==
    IF st.rest = << >> THEN st.chunks
    ELSE UnloadChunksLoop([chunks |-> UnloadChunk(st.chunks, Head(st.rest)),
                           rest |-> Tail(st.rest)])

UnloadChunks(chunks, keys) == UnloadChunksLoop([chunks |-> chunks, rest |-> keys])

\* the sort with the comparison turned round: latest access first
RECURSIVE InsertByLastAccessedLatestFirst(_, _)
InsertByLastAccessedLatestFirst(sorted, e) ==
    IF sorted = << >> THEN <<e>>
    ELSE IF e.lastAccessed > Head(sorted).lastAccessed THEN <<e>> \o sorted
         ELSE <<Head(sorted)>> \o InsertByLastAccessedLatestFirst(Tail(sorted), e)

\* Array.prototype.sort((a, b) => a.lastAccessed - b.lastAccessed): stable
RECURSIVE InsertByLastAccessed(_, _)
InsertByLastAccessed(sorted, e) ==
    IF sorted = << >> THEN <<e>>
    ELSE IF e.lastAccessed < Head(sorted).lastAccessed THEN <<e>> \o sorted
         ELSE <<Head(sorted)>> \o InsertByLastAccessed(Tail(sorted), e)

RECURSIVE SortByLastAccessed(_)
SortByLastAccessed(entries) ==
    IF entries = << >> THEN << >>
    ELSE InsertByLastAccessed(SortByLastAccessed(SubSeq(entries, 1, Len(entries) - 1)),
                              entries[Len(entries)])

\* Math.max(Math.abs(x - cx), Math.abs(z - cz))
ChunkDistance(key, current) == Max2(Abs(key[1] - current[1]), Abs(key[2] - current[2]))

\* cleanupOldChunks without the render range test: the oldest entries go
CleanupOldChunksOldestGo(chunks, current) ==
    IF Len(chunks) <= MaxCachedChunks THEN chunks
    ELSE LET sortedChunks == SortByLastAccessed(chunks)
             chunksToRemove == SubSeq(sortedChunks, 1, Len(chunks) - MaxCachedChunks)
             removedKeys == {chunksToRemove[k].key : k \in 1..Len(chunksToRemove)}
         IN  SelectSeq(chunks, LAMBDA e : e.key \notin removedKeys)

\* cleanupOldChunks()
CleanupOldChunks(chunks, current) ==
    IF Len(chunks) <= MaxCachedChunks THEN chunks
    ELSE LET sortedChunks == SortByLastAccessed(chunks)
             chunksToRemove == SubSeq(sortedChunks, 1, Len(chunks) - MaxCachedChunks)
             removedKeys == {chunksToRemove[k].key : k \in
                                {j \in 1..Len(chunksToRemove) :
                                    ChunkDistance(chunksToRemove[j].key, current)
                                        > RenderRadius}}
         IN  SelectSeq(chunks, LAMBDA e : e.key \notin removedKeys)

-----------------------------------------------------------------------------
(* OptimizedDynamicTerrain and OptimizedChunkComponent *)

\* calculateLODLevel(playerPosition, coord) = LODLevel.CULLED: the chunk centre
\* is more than 150 units from the player
ChunkCulled(pos, coord) ==
    LET chunkCenterX == coord[1] * ChunkSize + ChunkSize \div 2
        chunkCenterZ == coord[2] * ChunkSize + ChunkSize \div 2
    IN  Sq(pos[1] - chunkCenterX) + Sq(pos[2] - chunkCenterZ) > Sq(150 * Scale)

\* calculateObjectLODLevel(playerPosition, position) = LODLevel.CULLED: the
\* feature is more than 100 units from the player
ObjectCulled(pos, position) ==
    Sq(pos[1] - position[1]) + Sq(pos[2] - position[3]) > Sq(100 * Scale)

\* the obstacle id `${feature.type}-${feature.position[0]}-${feature.position[2]}`
ObstacleId(feature) == <<feature.type, feature.position[1], feature.position[3]>>

IsObstacleFeature(feature) == feature.type = "tree" \/ feature.type = "rock"

\* the CollisionBounds the component registers for a tree or rock
FeatureBounds(feature) ==
    [id |-> ObstacleId(feature), type |-> feature.type, position |-> feature.position,
     radius |-> IF feature.type = "tree" THEN (8 * Scale) \div 10 ELSE (12 * Scale) \div 10,
     height |-> IF feature.type = "tree" THEN 8 * Scale ELSE 2 * Scale]

\* renderObjectsRef.current.forEach(... collisionManager.removeCollisionObject(id))
RECURSIVE RemoveObstaclesLoop(_)
RemoveObstaclesLoop(st) ==
    IF st.rest = << >> THEN st.idx
    ELSE RemoveObstaclesLoop(
            [idx |-> IF IsObstacleFeature(Head(st.rest))
                     THEN RemoveCollisionObject(st.idx, ObstacleId(Head(st.rest)))
                     ELSE st.idx,
             rest |-> Tail(st.rest)])

RemoveObstacles(idx, renderObjects) ==
    RemoveObstaclesLoop([idx |-> idx, rest |-> renderObjects])

\* chunkData.features.forEach: features that are not culled get a render object,
\* trees and rocks among them an obstacle
RECURSIVE AddObstaclesLoop(_, _)
AddObstaclesLoop(st, pos) ==
    IF st.rest = << >> THEN [idx |-> st.idx, renderObjects |-> st.renderObjects]
    ELSE LET feature == Head(st.rest)
         IN  AddObstaclesLoop(
                IF ObjectCulled(pos, feature.position)
                THEN [idx |-> st.idx, renderObjects |-> st.renderObjects,
                      rest |-> Tail(st.rest)]
                ELSE [idx |-> IF IsObstacleFeature(feature)
                              THEN AddCollisionObject(st.idx, FeatureBounds(feature))
                              ELSE st.idx,
                      renderObjects |-> Append(st.renderObjects, feature),
                      rest |-> Tail(st.rest)],
                pos)

AddObstacles(idx, features, pos) ==
    AddObstaclesLoop([idx |-> idx, renderObjects |-> << >>, rest |-> features], pos)

\* the effect "Create and manage render objects based on LOD" of one chunk
\* component: nothing when the chunk is culled, else the previous obstacles
\* are removed and the features registered
ChunkEffect(idx, comp, chunkData, pos) ==
    IF ChunkCulled(pos, chunkData.coord)
    THEN [idx |-> idx,
          comp |-> [coord |-> chunkData.coord, chunkData |-> chunkData,
                    renderObjects |-> comp.renderObjects]]
    ELSE LET added == AddObstacles(RemoveObstacles(idx, comp.renderObjects),
                                   chunkData.features, pos)
         IN  [idx |-> added.idx,
              comp |-> [coord |-> chunkData.coord, chunkData |-> chunkData,
                        renderObjects |-> added.renderObjects]]

\* the effect "Cleanup on unmount" of every component of comps that is not in
\* the new list of chunks
RECURSIVE UnmountRemovedLoop(_, _)
UnmountRemovedLoop(st, coords) ==
    IF st.rest = << >> THEN st.idx
    ELSE UnmountRemovedLoop(
            [idx |-> IF Head(st.rest).coord \in coords THEN st.idx
                     ELSE RemoveObstacles(st.idx, Head(st.rest).renderObjects),
             rest |-> Tail(st.rest)],
            coords)

UnmountRemoved(idx, comps, coords) ==
    UnmountRemovedLoop([idx |-> idx, rest |-> comps], coords)

\* the component mounted for coord, or a new one with no render objects
ComponentFor(comps, chunkData) ==
    LET at == {k \in 1..Len(comps) : comps[k].coord = chunkData.coord}
    IN  IF at = {} THEN [coord |-> chunkData.coord, chunkData |-> chunkData,
                         renderObjects |-> << >>, isNew |-> TRUE]
        ELSE LET c == comps[CHOOSE k \in at : TRUE]
             IN  [coord |-> c.coord, chunkData |-> c.chunkData,
                  renderObjects |-> c.renderObjects, isNew |-> FALSE]

\* the effects of the chunk components of a commit, in render order: a
\* component runs its effect when it is new or one of its dependencies
\* (chunkData, playerPosition) changed
RECURSIVE RunEffectsLoop(_, _, _, _)
RunEffectsLoop(st, comps, pos, posChanged) ==
    IF st.rest = << >> THEN [idx |-> st.idx, comps |-> st.comps]
    ELSE LET chunkData == Head(st.rest)
             old == ComponentFor(comps, chunkData)
             run == old.isNew \/ posChanged \/ old.chunkData # chunkData
             one == IF run THEN ChunkEffect(st.idx, old, chunkData, pos)
                    ELSE [idx |-> st.idx,
                          comp |-> [coord |-> old.coord, chunkData |-> old.chunkData,
                                    renderObjects |-> old.renderObjects]]
         IN  RunEffectsLoop([idx |-> one.idx, comps |-> Append(st.comps, one.comp),
                             rest |-> Tail(st.rest)],
                            comps, pos, posChanged)

RunEffects(idx, comps, chunks, pos, posChanged) ==
    RunEffectsLoop([idx |-> idx, comps |-> << >>, rest |-> chunks],
                   comps, pos, posChanged)

\* a React commit of OptimizedDynamicTerrain rendered with prop pos and state
\* chunks: unmount cleanups first, then the effects
Commit(idx, comps, chunks, pos, posChanged) ==
    RunEffects(UnmountRemoved(idx, comps, {chunks[k].coord : k \in 1..Len(chunks)}),
               comps, chunks, pos, posChanged)

-----------------------------------------------------------------------------
(* PathfindingManager.  Game constructs it with the defaults: nodeSize 1,
   maxSearchNodes 1000, cacheTimeout 5000 ms.  Costs (g, f) are in 1/10000 of
   a node step; a heuristic distance h counts node steps. *)

\* nodeSize
NodeSize == 1 * Scale

\* maxSearchNodes.  The game runs with 1000; the model follows a smaller cap.
MaxSearchNodes == 6

\* cacheTimeout, in clock readings: a reading of the model's clock is 5000 ms
CacheTimeout == 1

\* worldToNode(x, z)
WorldToNode(x, z) == <<x \div NodeSize, z \div NodeSize>>

\* nodeToWorld(nodeX, nodeZ): the center of the node, as the waypoint [x, z]
NodeToWorld(node) ==
    <<node[1] * NodeSize + NodeSize \div 2, node[2] * NodeSize + NodeSize \div 2>>

\* heuristic: Manhattan distance
Heuristic(a, b) == Abs(a[1] - b[1]) + Abs(a[2] - b[2])

\* h as a part of f = g + h
CostOfSteps(h) == h * 10000

\* getNeighbors(x, z), in the order of the array
GetNeighbors(n) ==
    <<<<n[1] - 1, n[2]>>, <<n[1] + 1, n[2]>>, <<n[1], n[2] - 1>>, <<n[1], n[2] + 1>>,
      <<n[1] - 1, n[2] - 1>>, <<n[1] + 1, n[2] - 1>>,
      <<n[1] - 1, n[2] + 1>>, <<n[1] + 1, n[2] + 1>>>>

\* getMoveCost with the cost of an orthogonal step for every step
GetMoveCostFlat(from, to, entityType) ==
    IF entityType = "climbing" THEN (10000 * 8) \div 10 ELSE 10000

\* getMoveCost(from, to, entityType): 1.414 or 1.0, times 0.8 for climbing
GetMoveCost(from, to, entityType) ==
    LET isDiagonal == Abs(to[1] - from[1]) = 1 /\ Abs(to[2] - from[2]) = 1
        baseCost == IF isDiagonal THEN 14140 ELSE 10000
    IN  IF entityType = "climbing" THEN (baseCost * 8) \div 10 ELSE baseCost

\* excludeTypes that let climbing entities pass trees instead of rocks
WalkExcludesTreesForClimbing(entityType) ==
    CASE entityType = "flying" -> {"tree", "rock", "shop"}
      [] entityType = "climbing" -> {"tree"}
      [] OTHER -> {}

\* the excludeTypes isNodeWalkable passes to checkCircleCollision
WalkExcludes(entityType) ==
    CASE entityType = "flying" -> {"tree", "rock", "shop"}
      [] entityType = "climbing" -> {"rock"}
      [] OTHER -> {}

\* isNodeWalkable(nodeX, nodeZ, entityRadius, entityType)
IsNodeWalkable(idx, node, entityRadius, entityType) ==
    ~CheckCircleCollision(idx, NodeToWorld(node)[1], NodeToWorld(node)[2],
                          entityRadius, WalkExcludes(entityType)).hit

\* findNearestWalkableNode, the loops over dx and dz for one radius: the
\* offsets on the ring, in loop order
RingOffsets(radius) ==
    SelectSeq([k \in 1..((2 * radius + 1) * (2 * radius + 1)) |->
                  <<((k - 1) \div (2 * radius + 1)) - radius,
                    ((k - 1) % (2 * radius + 1)) - radius>>],
              LAMBDA o : Abs(o[1]) = radius \/ Abs(o[2]) = radius)

\* findNearestWalkableNode(targetX, targetZ, entityRadius, entityType), from
\* the given radius on (maxRadius = 10)
RECURSIVE NearestWalkableFrom(_, _, _, _, _)
NearestWalkableFrom(idx, target, entityRadius, entityType, radius) ==
    IF radius > 10 THEN [found |-> FALSE, node |-> target]
    ELSE LET ring == RingOffsets(radius)
             Walkable(i) == IsNodeWalkable(idx, <<target[1] + ring[i][1],
                                                  target[2] + ring[i][2]>>,
                                           entityRadius, entityType)
         IN  IF \E i \in 1..Len(ring) : Walkable(i)
             THEN LET first == CHOOSE i \in 1..Len(ring) :
                                  Walkable(i) /\ \A j \in 1..(i - 1) : ~Walkable(j)
                  IN  [found |-> TRUE,
                       node |-> <<target[1] + ring[first][1], target[2] + ring[first][2]>>]
             ELSE NearestWalkableFrom(idx, target, entityRadius, entityType, radius + 1)

\* findNearestWalkableNode with the radius loop begun at 2
FindNearestWalkableSkipFirstRing(idx, target, entityRadius, entityType) ==
    NearestWalkableFrom(idx, target, entityRadius, entityType, 2)

FindNearestWalkableNode(idx, target, entityRadius, entityType) ==
    NearestWalkableFrom(idx, target, entityRadius, entityType, 1)

\* a PathNode without a parent
NoParent == << >>

\* openSet.sort((a, b) => a.f - b.f): stable, so nodes of equal f keep their order
RECURSIVE InsertByF(_, _, _)
InsertByF(sorted, key, allNodes) ==
    IF sorted = << >> THEN <<key>>
    ELSE IF allNodes[key].f < allNodes[Head(sorted)].f THEN <<key>> \o sorted
         ELSE <<Head(sorted)>> \o InsertByF(Tail(sorted), key, allNodes)

RECURSIVE SortByF(_, _)
SortByF(openSet, allNodes) ==
    IF openSet = << >> THEN << >>
    ELSE InsertByF(SortByF(SubSeq(openSet, 1, Len(openSet) - 1), allNodes),
                   openSet[Len(openSet)], allNodes)

\* the loop condition of aStar without the cap on searched nodes
SearchContinuesUncapped(openSet, searchedNodes) == Len(openSet) > 0

\* aStar: while (openSet.length > 0 && searchedNodes < this.maxSearchNodes)
SearchContinues(openSet, searchedNodes) ==
    Len(openSet) > 0 /\ searchedNodes < MaxSearchNodes

\* aStar, "maxDistance = 100" in the destructuring of the request: the value
\* of a request that has none
MaxDistanceOf(request) ==
    IF request.maxDistance = NoValue THEN 100 ELSE request.maxDistance

\* the distance limit left out
WithinMaxDistanceAlways(start, neighbor, request) == TRUE

\* aStar, the distance limit: a neighbor passes unless
\* distanceFromStart > maxDistance
WithinMaxDistance(start, neighbor, request) ==
    ~(Heuristic(start, neighbor) > MaxDistanceOf(request))

\* aStar, the body of "for (const neighbor of neighbors)" for one neighbor.
\* st is the search state [openSet, closedSet, allNodes, searchedNodes,
\* bestNode, replaced (history: a known node got a new parent)]; q is
\* [idx, start, goal, request].
Relax(st, current, neighbor, q) ==
    IF neighbor \in st.closedSet THEN st
    ELSE IF ~IsNodeWalkable(q.idx, neighbor, q.request.entityRadius, q.request.entityType)
    THEN st
    ELSE IF ~WithinMaxDistance(q.start, neighbor, q.request) THEN st
    ELSE LET tentativeG == st.allNodes[current].g
                              + GetMoveCost(current, neighbor, q.request.entityType)
             isNew == neighbor \notin DOMAIN st.allNodes
             h == IF isNew THEN Heuristic(neighbor, q.goal) ELSE st.allNodes[neighbor].h
         IN  IF isNew \/ tentativeG < st.allNodes[neighbor].g
             THEN [st EXCEPT
                     !.allNodes = MapPut(st.allNodes, neighbor,
                                         [g |-> tentativeG, h |-> h,
                                          f |-> tentativeG + CostOfSteps(h),
                                          parent |-> current]),
                     !.openSet = IF \E i \in 1..Len(st.openSet) : st.openSet[i] = neighbor
                                 THEN st.openSet ELSE Append(st.openSet, neighbor),
                     !.replaced = st.replaced \/ ~isNew]
             ELSE st

\* aStar, the loop over the neighbors of current
RECURSIVE RelaxLoop(_, _, _)
RelaxLoop(lp, current, q) ==
    IF lp.rest = << >> THEN lp.st
    ELSE RelaxLoop([st |-> Relax(lp.st, current, Head(lp.rest), q), rest |-> Tail(lp.rest)],
                   current, q)

\* best node tracking that takes every node taken from the open set
IsBetterAlways(currentH, bestH) == TRUE

\* aStar, best node tracking: if (current.h < bestNode.h)
IsBetter(currentH, bestH) == currentH < bestH

\* aStar, the main loop: [reached, node, st]
RECURSIVE SearchLoop(_, _)
SearchLoop(st, q) ==
    IF ~SearchContinues(st.openSet, st.searchedNodes)
    THEN [reached |-> FALSE, node |-> st.bestNode, st |-> st]
    ELSE LET sorted == SortByF(st.openSet, st.allNodes)
             current == Head(sorted)
             popped == [st EXCEPT !.searchedNodes = st.searchedNodes + 1,
                                  !.openSet = Tail(sorted)]
         IN  IF current = q.goal
             THEN [reached |-> TRUE, node |-> current, st |-> popped]
             ELSE SearchLoop(
                    RelaxLoop(
                       [st |-> [popped EXCEPT
                                  !.bestNode = IF IsBetter(st.allNodes[current].h,
                                                           st.allNodes[st.bestNode].h)
                                               THEN current ELSE st.bestNode,
                                  !.closedSet = st.closedSet \cup {current}],
                        rest |-> GetNeighbors(current)],
                       current, q),
                    q)

\* the waypoint put at the end of the path instead
UnshiftAsPush(path, world) == Append(path, world)

\* path.unshift([world.x, world.z])
Unshift(path, world) == <<world>> \o path

\* reconstructPath, the loop "while (current)": it has come to its end when
\* it has left the node without parent; a walk longer than the number of
\* nodes is going round a cycle of parent links and never ends
RECURSIVE ReconstructLoop(_, _)
ReconstructLoop(lp, allNodes) ==
    IF lp.current = NoParent THEN [ended |-> TRUE, path |-> lp.path]
    ELSE IF lp.steps >= Cardinality(DOMAIN allNodes) THEN [ended |-> FALSE, path |-> lp.path]
    ELSE ReconstructLoop([current |-> allNodes[lp.current].parent,
                          path |-> Unshift(lp.path, NodeToWorld(lp.current)),
                          steps |-> lp.steps + 1],
                         allNodes)

\* reconstructPath(goalNode): [result, ended]
ReconstructPath(goalNode, allNodes) ==
    LET walk == ReconstructLoop([current |-> goalNode, path |-> << >>, steps |-> 0],
                                allNodes)
    IN  [result |-> [found |-> TRUE, path |-> walk.path, cost |-> allNodes[goalNode].g],
         ended |-> walk.ended]

\* aStar from the initialised start node to goalNode
SearchFrom(idx, request, startNode, goalNode) ==
    LET h == Heuristic(startNode, goalNode)
        q == [idx |-> idx, start |-> startNode, goal |-> goalNode, request |-> request]
        out == SearchLoop([openSet |-> <<startNode>>, closedSet |-> {},
                           allNodes |-> (startNode :>
                                           [g |-> 0, h |-> h, f |-> CostOfSteps(h),
                                            parent |-> NoParent]),
                           searchedNodes |-> 0, bestNode |-> startNode,
                           replaced |-> FALSE],
                          q)
    IN  IF out.reached \/ (request.allowPartialPath /\ out.node # startNode)
        THEN LET r == ReconstructPath(out.node, out.st.allNodes)
             IN  [result |-> r.result, searchedNodes |-> out.st.searchedNodes,
                  ended |-> r.ended, target |-> goalNode,
                  expanded |-> out.st.closedSet, reached |-> out.reached,
                  replaced |-> out.st.replaced]
        ELSE [result |-> NotFound, searchedNodes |-> out.st.searchedNodes, ended |-> TRUE,
              target |-> goalNode, expanded |-> out.st.closedSet, reached |-> FALSE,
              replaced |-> out.st.replaced]

\* aStar(request): [result, searchedNodes, ended, target, expanded, reached,
\* replaced]
AStar(idx, request) ==
    LET startNode == WorldToNode(request.startX, request.startZ)
        goalNode == WorldToNode(request.goalX, request.goalZ)
        failed == [result |-> NotFound, searchedNodes |-> 0, ended |-> TRUE,
                   target |-> << >>, expanded |-> {}, reached |-> FALSE,
                   replaced |-> FALSE]
    IN  IF ~IsNodeWalkable(idx, goalNode, request.entityRadius, request.entityType)
        THEN IF ~request.allowPartialPath THEN failed
             ELSE LET nearestGoal == FindNearestWalkableNode(idx, goalNode,
                                        request.entityRadius, request.entityType)
                  IN  IF nearestGoal.found
                      THEN SearchFrom(idx, request, startNode, nearestGoal.node)
                      ELSE failed
        ELSE SearchFrom(idx, request, startNode, goalNode)

\* the nodes findNearestWalkableNode passes to isNodeWalkable, from the given
\* radius on: ring by ring in loop order, up to the node it returns
RECURSIVE RingNodesTested(_, _, _, _, _)
RingNodesTested(idx, target, entityRadius, entityType, radius) ==
    IF radius > 10 THEN {}
    ELSE LET ring == RingOffsets(radius)
             NodeAt(i) == <<target[1] + ring[i][1], target[2] + ring[i][2]>>
             Walkable(i) == IsNodeWalkable(idx, NodeAt(i), entityRadius, entityType)
         IN  IF \E i \in 1..Len(ring) : Walkable(i)
             THEN {NodeAt(j) : j \in 1..(CHOOSE i \in 1..Len(ring) :
                                           Walkable(i) /\ \A k \in 1..(i - 1) : ~Walkable(k))}
             ELSE {NodeAt(j) : j \in 1..Len(ring)}
                    \cup RingNodesTested(idx, target, entityRadius, entityType, radius + 1)

\* the nodes aStar passes to isNodeWalkable: the goal node, the nodes of the
\* ring search when the goal is not walkable and a partial path is allowed,
\* and every neighbor of an expanded node that was not in closedSet (the
\* start node is the only node that enters closedSet without the test)
NodesTested(idx, request, a) ==
    LET startNode == WorldToNode(request.startX, request.startZ)
        goalNode == WorldToNode(request.goalX, request.goalZ)
    IN  {goalNode}
          \cup (IF request.allowPartialPath
                    /\ ~IsNodeWalkable(idx, goalNode, request.entityRadius,
                                       request.entityType)
                THEN RingNodesTested(idx, goalNode, request.entityRadius,
                                     request.entityType, 1)
                ELSE {})
          \cup (UNION {SeqToSet(GetNeighbors(n)) : n \in a.expanded} \ {startNode})

\* the cells a findPath call looks up: none when the cache answers, else
\* those of the circle query of isNodeWalkable for every node tested
FindPathReads(idx, call) ==
    IF call.served = "cache" THEN {}
    ELSE UNION {CircleReads(idx, NodeToWorld(n)[1], NodeToWorld(n)[2],
                            call.request.entityRadius,
                            WalkExcludes(call.request.entityType)) :
                   n \in NodesTested(idx, call.request, call)}

\* getCacheKey(request): Math.floor of the four coordinates, entityRadius, entityType
GetCacheKey(request) ==
    <<request.startX \div Scale, request.startZ \div Scale,
      request.goalX \div Scale, request.goalZ \div Scale,
      request.entityRadius, request.entityType>>

\* the cache test of findPath with <= for <
CacheFreshInclusive(age) == age <= CacheTimeout

\* findPath: Date.now() - cached.timestamp < this.cacheTimeout
CacheFresh(age) == age < CacheTimeout

\* findPath(request), with the clock read as t1 at the cache test and as t2
\* when the result is stored: the call record and the cache it leaves
FindPath(idx, cache, request, t1, t2) ==
    LET cacheKey == GetCacheKey(request)
        entryAge == IF cacheKey \in DOMAIN cache THEN t1 - cache[cacheKey].timestamp
                    ELSE NoValue
    IN  IF cacheKey \in DOMAIN cache /\ CacheFresh(t1 - cache[cacheKey].timestamp)
        THEN [call |-> [kind |-> "findPath", request |-> request,
                        result |-> cache[cacheKey].path,
                        checkedAt |-> t1, entryAge |-> entryAge, served |-> "cache",
                        searchedNodes |-> 0, ended |-> TRUE, target |-> << >>,
                        expanded |-> {}, reached |-> FALSE, replaced |-> FALSE,
                        smoothed |-> << >>],
              cache |-> cache, clock |-> t1]
        ELSE LET a == AStar(idx, request)
             IN  [call |-> [kind |-> "findPath", request |-> request, result |-> a.result,
                            checkedAt |-> t1, entryAge |-> entryAge, served |-> "search",
                            searchedNodes |-> a.searchedNodes, ended |-> a.ended,
                            target |-> a.target, expanded |-> a.expanded,
                            reached |-> a.reached, replaced |-> a.replaced,
                            smoothed |-> << >>],
                  cache |-> MapPut(cache, cacheKey, [path |-> a.result, timestamp |-> t2]),
                  clock |-> t2]

\* clearCache() at clock reading t
ClearCache(cache, t) ==
    [key \in {k \in DOMAIN cache : ~(t - cache[k].timestamp > CacheTimeout)} |-> cache[key]]

\* the loop of smoothPath with a hit taking farthest one back
RECURSIVE FarthestReachableOneBack(_, _, _, _, _, _)
FarthestReachableOneBack(idx, path, entityRadius, current, i, farthest) ==
    IF i > Len(path) THEN farthest
    ELSE IF ~CheckSweptCollision(idx, path[current][1], path[current][2],
                                 path[i][1], path[i][2], entityRadius, {}).hit
         THEN FarthestReachableOneBack(idx, path, entityRadius, current, i + 1, i)
         ELSE farthest - 1

\* smoothPath, the loop "for (let i = current + 2; ...)": the farthest waypoint
\* reached by sweeps without hit, stopping at the first hit
RECURSIVE FarthestReachable(_, _, _, _, _, _)
FarthestReachable(idx, path, entityRadius, current, i, farthest) ==
    IF i > Len(path) THEN farthest
    ELSE IF ~CheckSweptCollision(idx, path[current][1], path[current][2],
                                 path[i][1], path[i][2], entityRadius, {}).hit
         THEN FarthestReachable(idx, path, entityRadius, current, i + 1, i)
         ELSE farthest

\* smoothPath, the loop "while (current < path.length - 1)"; indices count
\* from 1.  The loop has come to its end when current is the last index; a
\* loop that has made as many rounds as the path has waypoints without
\* getting there is one in which current does not advance, and never ends.
RECURSIVE SmoothLoop(_, _, _, _)
SmoothLoop(lp, idx, path, entityRadius) ==
    IF lp.current >= Len(path) THEN [smoothed |-> lp.smoothed, ended |-> TRUE]
    ELSE IF lp.rounds >= Len(path) THEN [smoothed |-> lp.smoothed, ended |-> FALSE]
    ELSE LET farthest == FarthestReachable(idx, path, entityRadius, lp.current,
                                           lp.current + 2, lp.current + 1)
         IN  SmoothLoop([smoothed |-> Append(lp.smoothed, path[farthest]),
                         current |-> farthest, rounds |-> lp.rounds + 1],
                        idx, path, entityRadius)

\* smoothPath(path, entityRadius): [smoothed, ended]
SmoothPath(idx, path, entityRadius) ==
    IF Len(path) <= 2 THEN [smoothed |-> path, ended |-> TRUE]
    ELSE SmoothLoop([smoothed |-> <<path[1]>>, current |-> 1, rounds |-> 0],
                    idx, path, entityRadius)

-----------------------------------------------------------------------------
(* EnhancedThirdPersonPlayer and EnhancedEnemy: movement in a frame tick.
   Lengths are in model units, directions and collision normals in
   thousandths, times in milliseconds; Math.sqrt and the divisions are cut
   to whole numbers. *)

\* playerRadius 0.5
PlayerRadius == Scale \div 2

\* enemyRadius 0.4
EnemyRadius == (4 * Scale) \div 10

\* delta of a frame: 50 ms
FrameDelta == 50

\* baseSpeed 8 times moveSpeed 1 times delta
PlayerStep == (8 * Scale * FrameDelta) \div 1000

\* enemy.speed 5 times delta
EnemyStep == (5 * Scale * FrameDelta) \div 1000

\* division cut toward zero, as Math.trunc of the quotient
TruncDiv(a, b) == IF a >= 0 THEN a \div b ELSE -((-a) \div b)

\* Math.sqrt cut to a whole number: the largest k in lo..hi with k * k <= n
RECURSIVE SqrtBetween(_, _, _)
SqrtBetween(n, lo, hi) ==
    IF lo >= hi THEN lo
    ELSE LET mid == (lo + hi + 1) \div 2
         IN  IF mid * mid <= n THEN SqrtBetween(n, mid, hi)
             ELSE SqrtBetween(n, lo, mid - 1)

\* Math.sqrt(dx * dx + dz * dz), which is no more than |dx| + |dz|
Length(dx, dz) == SqrtBetween(Sq(dx) + Sq(dz), 0, Abs(dx) + Abs(dz))

\* Math.abs(move) > 0.001
Noticeable(move) == Abs(move) * 1000 > Scale

\* the normal checkCircleCollision returns with a hit on obj:
\* [dx / distance || 0, 0, dz / distance || 0], as <<x, z>>
NormalOf(x, z, obj) ==
    LET dx == x - obj.position[1]
        dz == z - obj.position[3]
        distance == Length(dx, dz)
    IN  IF distance = 0 THEN <<0, 0>>
        ELSE <<TruncDiv(dx * 1000, distance), TruncDiv(dz * 1000, distance)>>

\* move * (1 - Math.abs(normal)) * factor, factor in tenths
SlideBy(move, normal, tenths) == TruncDiv(move * (1000 - Abs(normal)) * tenths, 10000)

\* the position <<x, z>> with v on the axis and other on the other axis
Place(axis, other, v) == IF axis = 1 THEN <<v, other>> ELSE <<other, v>>

\* "Verify the slide doesn't cause collision": the slide when the circle is
\* free there, else no move
AxisSlide(idx, from, slide, axis, other, radius) ==
    IF CheckCircleCollision(idx, Place(axis, other, slide)[1], Place(axis, other, slide)[2],
                            radius, {}).hit
    THEN from ELSE slide

\* the move along the axis after its collision test: the move when the test
\* reported no hit, else the slide by the normal of the hit
AxisTested(idx, from, move, axis, other, radius, tenths, collision) ==
    IF ~collision.hit THEN from + move
    ELSE AxisSlide(idx, from,
                   from + SlideBy(move,
                                  NormalOf(Place(axis, other, from + move)[1],
                                           Place(axis, other, from + move)[2],
                                           collision.object)[axis],
                                  tenths),
                   axis, other, radius)

\* one axis of the axis-separated movement: the move along the axis when the
\* circle is free there, else the slide when the circle is free there, else
\* no move
AxisMove(idx, from, move, axis, other, radius, tenths) ==
    IF ~Noticeable(move) THEN from
    ELSE AxisTested(idx, from, move, axis, other, radius, tenths,
                    CheckCircleCollision(idx, Place(axis, other, from + move)[1],
                                         Place(axis, other, from + move)[2], radius, {}))

\* "Try Z movement": Z against the x that the X movement resulted in
ThenZ(idx, finalX, z0, moveZ, radius, tenths) ==
    <<finalX, AxisMove(idx, z0, moveZ, 2, finalX, radius, tenths)>>

\* "Try X movement first ... Try Z movement": X against the old z, then Z
\* against the x that resulted; <<finalX, finalZ>>
AxisSeparatedMove(idx, x0, z0, moveX, moveZ, radius, tenths) ==
    ThenZ(idx, AxisMove(idx, x0, moveX, 1, z0, radius, tenths), z0, moveZ, radius, tenths)

\* moveVector: the sum of the key directions, for a camera direction and
\* its right vector (cameraDirection x up), both of length 1000
MoveVector(keys, dir, speed) ==
    LET right == <<-dir[2], dir[1]>>
        Part(key, v, sign) ==
            IF key \in keys THEN <<TruncDiv(sign * v[1] * speed, 1000),
                                   TruncDiv(sign * v[2] * speed, 1000)>>
            ELSE <<0, 0>>
        w == Part("w", dir, 1)
        b == Part("s", dir, -1)
        a == Part("a", right, -1)
        d == Part("d", right, 1)
    IN  <<w[1] + b[1] + a[1] + d[1], w[2] + b[2] + a[2] + d[2]>>

\* the player at <<x, z>> on the ground
OnGround(place) == <<place[1], 0, place[2]>>

\* EnhancedThirdPersonPlayer, useFrame with axis-separated movement: the
\* new playerPos (y is set to 0)
PlayerFrameAxis(idx, pos, keys, dir) ==
    OnGround(AxisSeparatedMove(idx, pos[1], pos[3], MoveVector(keys, dir, PlayerStep)[1],
                               MoveVector(keys, dir, PlayerStep)[2], PlayerRadius, 8))

\* the slide of the player's move mv that hit obj at <<newX, newZ>>: the move
\* less its part along the normal, when the circle is free there
PlayerSlide(idx, pos, mv, normal) ==
    LET dot == mv[1] * normal[1] + mv[2] * normal[2]
        slideX == pos[1] + mv[1] - TruncDiv(normal[1] * dot, 1000000)
        slideZ == pos[3] + mv[2] - TruncDiv(normal[2] * dot, 1000000)
    IN  IF ~CheckCircleCollision(idx, slideX, slideZ, PlayerRadius, {}).hit
        THEN <<slideX, 0, slideZ>>
        ELSE <<pos[1], 0, pos[3]>>

\* the player's move mv after its collision test
PlayerMoveTested(idx, pos, mv, collision) ==
    IF ~collision.hit THEN <<pos[1] + mv[1], 0, pos[3] + mv[2]>>
    ELSE PlayerSlide(idx, pos, mv,
                     NormalOf(pos[1] + mv[1], pos[3] + mv[2], collision.object))

\* the player's move mv: taken when the circle is free at the new position,
\* else projected on the surface when the circle is free there, else not taken
PlayerMove(idx, pos, mv) ==
    PlayerMoveTested(idx, pos, mv,
                     CheckCircleCollision(idx, pos[1] + mv[1], pos[3] + mv[2],
                                          PlayerRadius, {}))

\* EnhancedThirdPersonPlayer, useFrame with slide movement
PlayerFrameSlide(idx, pos, keys, dir) ==
    PlayerMove(idx, pos, MoveVector(keys, dir, PlayerStep))

\* followPath, "try alternative movement directions": the first of the four
\* at which the circle is free, else the path is dropped
AlternativeMove(idx, e, moveX, moveZ) ==
    LET x0 == e.position[1]
        z0 == e.position[3]
        alternativeDirections ==
            <<<<TruncDiv(moveX * 5, 10), TruncDiv(moveZ * (-5), 10)>>,
              <<TruncDiv(moveX * (-5), 10), TruncDiv(moveZ * 5, 10)>>,
              <<0, moveZ>>, <<moveX, 0>>>>
        Free(k) == ~CheckCircleCollision(idx, x0 + alternativeDirections[k][1],
                                         z0 + alternativeDirections[k][2],
                                         EnemyRadius, {}).hit
    IN  IF \E k \in 1..4 : Free(k)
        THEN LET k == CHOOSE i \in 1..4 : Free(i) /\ \A j \in 1..(i - 1) : ~Free(j)
             IN  [e EXCEPT !.position = <<x0 + alternativeDirections[k][1], e.position[2],
                                          z0 + alternativeDirections[k][2]>>]
        ELSE [e EXCEPT !.currentPath = << >>, !.pathIndex = 0]

\* followPath, after the axis-separated movement gave final: the movement is
\* applied when progress was made, else an alternative is tried
Stepped(idx, e, final, moveX, moveZ) ==
    IF Noticeable(final[1] - e.position[1]) \/ Noticeable(final[2] - e.position[3])
    THEN [e EXCEPT !.position = <<final[1], e.position[2], final[2]>>]
    ELSE AlternativeMove(idx, e, moveX, moveZ)

\* followPath, "Move towards current waypoint" by <<moveX, moveZ>>
StepAlong(idx, e, moveX, moveZ) ==
    Stepped(idx, e,
            AxisSeparatedMove(idx, e.position[1], e.position[3], moveX, moveZ,
                              EnemyRadius, 7),
            moveX, moveZ)

\* followPath(delta): [enemy, following]
FollowPath(idx, e, step) ==
    IF Len(e.currentPath) = 0 \/ e.pathIndex >= Len(e.currentPath)
    THEN [enemy |-> e, following |-> FALSE]
    ELSE LET targetPoint == e.currentPath[e.pathIndex + 1]
             dx == targetPoint[1] - e.position[1]
             dz == targetPoint[2] - e.position[3]
             distance == Length(dx, dz)
         IN  IF distance < Scale
             THEN [enemy |-> [e EXCEPT !.pathIndex = e.pathIndex + 1],
                   following |-> e.pathIndex + 1 < Len(e.currentPath)]
             ELSE [enemy |-> StepAlong(idx, e, TruncDiv(dx * step, distance),
                                       TruncDiv(dz * step, distance)),
                   following |-> TRUE]

\* getEntityType()
GetEntityType(type) ==
    CASE type \in {"acrobat", "sniper"} -> "climbing"
      [] type = "scout" -> "flying"
      [] OTHER -> "ground"

\* requestPathToPlayer, after findPath returned f: a found path of more than
\* one waypoint becomes the current path
PathTaken(e, f, t) ==
    [enemy |-> IF f.call.result.found /\ Len(f.call.result.path) > 1
               THEN [e EXCEPT !.lastPathRequest = t,
                              !.currentPath = f.call.result.path,
                              !.pathIndex = 1]
               ELSE [e EXCEPT !.lastPathRequest = t],
     cache |-> f.cache, call |-> f.call]

\* requestPathToPlayer(forceRequest), with Date.now() read as t: [enemy,
\* cache, call] (call.kind is "none" when findPath was not called)
RequestPathToPlayer(idx, cache, e, playerAt, forceRequest, t) ==
    IF ~forceRequest /\ t - e.lastPathRequest < 200
    THEN [enemy |-> e, cache |-> cache, call |-> NoPath]
    ELSE PathTaken(e,
                   FindPath(idx, cache,
                            [startX |-> e.position[1], startZ |-> e.position[3],
                             goalX |-> playerAt[1], goalZ |-> playerAt[3],
                             entityRadius |-> EnemyRadius, maxDistance |-> 50,
                             allowPartialPath |-> TRUE,
                             entityType |-> GetEntityType(e.type)],
                            t, t),
                   t)

\* useFrame, case 'acrobat', "Teleport to a random tree position": two draws
\* (angle, treeDistance); [enemy, rng]
AcrobatTeleport(idx, e, elapsed, p) ==
    LET treeDistance == 10 * Scale + (RandAt(NextRng(p)) * 15 * Scale) \div 4
    IN  [enemy |-> [e EXCEPT !.position = <<CosQ(RandAt(p)) * treeDistance, 8 * Scale,
                                            SinQ(RandAt(p)) * treeDistance>>,
                             !.lastSpecialAttack = elapsed],
         rng |-> NextRng(NextRng(p))]

\* a special move to <<newX, newZ>>: taken when the circle is free there
TakeIfFree(idx, e, newX, newZ) ==
    IF ~CheckCircleCollision(idx, newX, newZ, EnemyRadius, {}).hit
    THEN [e EXCEPT !.position = <<newX, e.position[2], newZ>>]
    ELSE e

\* useFrame, case 'acrobat', "Drop down when close to player", after tp, the
\* teleport or none; teleported tells which
AcrobatDrop(tp, distance, teleported) ==
    IF distance < 8 * Scale /\ tp.enemy.position[2] > 2 * Scale
    THEN [enemy |-> [tp.enemy EXCEPT
                        !.position[2] = @ - (15 * Scale * FrameDelta) \div 1000],
          rng |-> tp.rng, usePathfinding |-> FALSE]
    ELSE [enemy |-> tp.enemy, rng |-> tp.rng, usePathfinding |-> ~teleported]

\* useFrame, case 'acrobat'
AcrobatBehavior(idx, e, distance, elapsed, p) ==
    IF elapsed - e.lastSpecialAttack > 3000
    THEN AcrobatDrop(AcrobatTeleport(idx, e, elapsed, p), distance, TRUE)
    ELSE AcrobatDrop([enemy |-> e, rng |-> p], distance, FALSE)

\* useFrame, case 'berserker', "if (behaviorState.current.isCharging)": the
\* charge step is taken when the circle is free there, else the charge ends;
\* it ends two seconds after it began
BerserkerCharge(idx, e, elapsed, p) ==
    LET chargeSpeed == (20 * Scale * FrameDelta) \div 1000
        newX == e.position[1] + TruncDiv(e.chargeDirection[1] * chargeSpeed, 1000)
        newZ == e.position[3] + TruncDiv(e.chargeDirection[2] * chargeSpeed, 1000)
        free == ~CheckCircleCollision(idx, newX, newZ, EnemyRadius, {}).hit
    IN  IF e.isCharging
        THEN [enemy |-> [e EXCEPT
                           !.position = IF free THEN <<newX, e.position[2], newZ>> ELSE @,
                           !.isCharging = free /\ ~(elapsed - e.lastSpecialAttack > 2000)],
              rng |-> p, usePathfinding |-> FALSE]
        ELSE [enemy |-> e, rng |-> p, usePathfinding |-> TRUE]

\* useFrame, case 'berserker'
BerserkerBehavior(idx, e, dx, dz, distance, elapsed, p) ==
    IF ~e.isCharging /\ distance < 15 * Scale /\ elapsed - e.lastSpecialAttack > 4000
    THEN BerserkerCharge(idx,
                         [e EXCEPT !.isCharging = TRUE,
                                   !.chargeDirection = <<TruncDiv(dx * 1000, distance),
                                                         TruncDiv(dz * 1000, distance)>>,
                                   !.lastSpecialAttack = elapsed],
                         elapsed, p)
    ELSE BerserkerCharge(idx, e, elapsed, p)

\* useFrame, case 'leaper', "Move toward jump target"
LeaperJump(idx, e, p) ==
    LET jumpDx == e.targetPosition[1] - e.position[1]
        jumpDz == e.targetPosition[2] - e.position[3]
        jumpDistance == Length(jumpDx, jumpDz)
        jumpSpeed == 2 * EnemyStep
    IN  IF jumpDistance * 2 > Scale
        THEN [enemy |-> TakeIfFree(idx, e,
                                   e.position[1] + TruncDiv(jumpDx * jumpSpeed, jumpDistance),
                                   e.position[3] + TruncDiv(jumpDz * jumpSpeed, jumpDistance)),
              rng |-> p, usePathfinding |-> FALSE]
        ELSE [enemy |-> e, rng |-> p, usePathfinding |-> TRUE]

\* useFrame, case 'leaper': three draws (jumpAngle, jumpDistance, jumpCooldown)
\* when the cooldown has run out
LeaperBehavior(idx, e, p) ==
    IF e.jumpCooldown - FrameDelta <= 0
    THEN LET jumpDistance == 5 * Scale + (RandAt(NextRng(p)) * 8 * Scale) \div 4
         IN  LeaperJump(idx,
                        [e EXCEPT
                           !.targetPosition =
                               <<e.position[1] + CosQ(RandAt(p)) * jumpDistance,
                                 e.position[3] + SinQ(RandAt(p)) * jumpDistance>>,
                           !.jumpCooldown = 1000 + (RandAt(NextRng(NextRng(p))) * 2000) \div 4,
                           !.currentPath = << >>, !.pathIndex = 0],
                        NextRng(NextRng(NextRng(p))))
    ELSE LeaperJump(idx, [e EXCEPT !.jumpCooldown = @ - FrameDelta], p)

\* useFrame, the switch on enemy.type, with clock.elapsedTime read as elapsed
\* (milliseconds): [enemy, rng, usePathfinding]
SpecialBehavior(idx, e, dx, dz, distance, elapsed, p) ==
    CASE e.type = "acrobat" -> AcrobatBehavior(idx, e, distance, elapsed, p)
      [] e.type = "berserker" -> BerserkerBehavior(idx, e, dx, dz, distance, elapsed, p)
      [] e.type = "leaper" -> LeaperBehavior(idx, e, p)
      [] OTHER -> [enemy |-> e, rng |-> p, usePathfinding |-> TRUE]

\* useFrame, "Keep enemy on ground (except for special types)"
KeepOnGround(e) ==
    IF e.type \notin {"acrobat", "sniper"} THEN [e EXCEPT !.position[2] = 0] ELSE e

\* what a frame leaves: [enemy, rng, cache, call]
FrameResult(r, rng) ==
    [enemy |-> KeepOnGround(r.enemy), rng |-> rng, cache |-> r.cache, call |-> r.call]

\* useFrame after followPath returned fp: "Request new path if not following
\* one, path is old, or player moved significantly"
AfterFollow(idx, cache, fp, playerAt, movedFar, rng, t) ==
    IF ~fp.following \/ Len(fp.enemy.currentPath) = 0 \/ movedFar
    THEN FrameResult(RequestPathToPlayer(idx, cache, fp.enemy, playerAt, movedFar, t), rng)
    ELSE FrameResult([enemy |-> fp.enemy, cache |-> cache, call |-> NoPath], rng)

\* useFrame, "Use pathfinding for most movement", for the enemy e of which
\* movedFar tells that the player moved more than 3 units since its last request
Pathfinding(idx, cache, e, playerAt, walks, movedFar, rng, t) ==
    IF walks
    THEN AfterFollow(idx, cache, FollowPath(idx, e, EnemyStep), playerAt, movedFar, rng, t)
    ELSE FrameResult([enemy |-> e, cache |-> cache, call |-> NoPath], rng)

\* useFrame after the special behaviour gave sb: the check of the player's
\* move since the last request, and the movement along the path when the
\* player is more than 1.5 away
AfterSpecial(idx, cache, sb, playerAt, distance, t) ==
    LET movedFar == Length(playerAt[1] - sb.enemy.lastPlayerPosition[1],
                           playerAt[3] - sb.enemy.lastPlayerPosition[3]) > 3 * Scale
    IN  Pathfinding(idx, cache,
                    IF movedFar
                    THEN [sb.enemy EXCEPT !.lastPlayerPosition = playerAt,
                                          !.currentPath = << >>, !.pathIndex = 0]
                    ELSE sb.enemy,
                    playerAt, sb.usePathfinding /\ distance * 2 > 3 * Scale,
                    movedFar, sb.rng, t)

\* the frame of an enemy that is distance away from the player
FrameAtDistance(idx, cache, e, playerAt, dx, dz, distance, elapsed, p, t) ==
    AfterSpecial(idx, cache, SpecialBehavior(idx, e, dx, dz, distance, elapsed, p),
                 playerAt, distance, t)

\* EnhancedEnemy, useFrame for a living enemy: [enemy, rng, cache, call]
EnemyFrame(idx, cache, e, playerAt, elapsed, p, t) ==
    FrameAtDistance(idx, cache, e, playerAt,
                    playerAt[1] - e.position[1], playerAt[3] - e.position[3],
                    Length(playerAt[1] - e.position[1], playerAt[3] - e.position[3]),
                    elapsed, p, t)

-----
(* Specification SpecChunk: a ChunkManager driven by arbitrary calls *)

\* number of ChunkManager calls followed
MaxCalls == 4

\* the largest reading of the clock
MaxTime == 1

\* Date.now(): the last reading or a later one
ClockReadings == {t \in {now, now + 1} : t <= MaxTime}

CallCoords == {<<0, 0>>, <<3, 0>>}

CallPositions == {<<0, 0>>, <<ChunkSize, 0>>}

InitChunk ==
    /\ IndexAtStart
    /\ PathAtStart
    /\ GameAtStart
    /\ rngPos = 1
    /\ generated = << >>
    /\ CacheAtStart
    /\ TerrainAtStart

Called(name, args, result) ==
    /\ apiCalls.count < MaxCalls
    /\ apiCalls' = [count |-> apiCalls.count + 1, last |-> name,
                    args |-> args, result |-> result]

Cache == [chunks |-> loadedChunks, rng |-> rngPos]

SetCache(cache) ==
    /\ loadedChunks' = cache.chunks
    /\ rngPos' = cache.rng

ChGetChunk ==
    \E coord \in CallCoords, t \in ClockReadings :
        /\ Called("getChunk", coord, NoResult)
        /\ now' = t
        /\ SetCache(GetChunk(Cache, coord, t))
        /\ UNCHANGED <<gameVars, pathVars, currentPlayerChunk, generated, indexVars, reactVars>>

ChPreloadArea ==
    \E t \in ClockReadings :
        /\ Called("preloadArea", <<0, 0>>, NoResult)
        /\ now' = t
        /\ SetCache(PreloadArea(Cache, 0, 0, RenderRadius, t))
        /\ UNCHANGED <<gameVars, pathVars, currentPlayerChunk, generated, indexVars, reactVars>>

ChUpdatePlayerPosition ==
    \E pos \in CallPositions :
    \E upd \in {UpdatePlayerPosition(loadedChunks, currentPlayerChunk, pos[1], pos[2])} :
        /\ Called("updatePlayerPosition", pos,
                  [chunksToLoad |-> upd.chunksToLoad,
                   chunksToUnload |-> upd.chunksToUnload])
        /\ currentPlayerChunk' = upd.currentPlayerChunk
        /\ UNCHANGED <<gameVars, pathVars, loadedChunks, now, genVars, indexVars, reactVars>>

ChUnloadChunk ==
    \E key \in CallCoords :
        /\ Called("unloadChunk", key, NoResult)
        /\ loadedChunks' = UnloadChunk(loadedChunks, key)
        /\ UNCHANGED <<gameVars, pathVars, currentPlayerChunk, now, genVars, indexVars, reactVars>>

ChCleanupOldChunks ==
    /\ Called("cleanupOldChunks", << >>, NoResult)
    /\ loadedChunks' = CleanupOldChunks(loadedChunks, currentPlayerChunk)
    /\ UNCHANGED <<gameVars, pathVars, currentPlayerChunk, now, genVars, indexVars, reactVars>>

NextChunk ==
    \/ ChGetChunk
    \/ ChPreloadArea
    \/ ChUpdatePlayerPosition
    \/ ChUnloadChunk
    \/ ChCleanupOldChunks

SpecChunk == InitChunk /\ [][NextChunk]_vars

-----------------------------------------------------------------------------
(* Specification SpecTerrain: the terrain component in the running game *)

\* number of position updates followed
MaxUpdates == 2

\* positions the Game renders the terrain with: the spawn point and the
\* centres of chunks (1, 0) and (7, 0)
PlayerPositions == {<<0, 0>>, <<ChunkSize + ChunkSize \div 2, ChunkSize \div 2>>,
                    <<7 * ChunkSize + ChunkSize \div 2, ChunkSize \div 2>>}

InitTerrain ==
    /\ IndexAtStart
    /\ PathAtStart
    /\ GameAtStart
    /\ rngPos = 1
    /\ generated = << >>
    /\ CacheAtStart
    /\ TerrainAtStart

\* the effect "Initial chunk loading"
TrPreload ==
    /\ ~preloaded
    /\ preloaded' = TRUE
    /\ \E t \in ClockReadings :
       \E cache \in {PreloadArea(Cache, 0, 0, RenderRadius, t)} :
           /\ now' = t
           /\ SetCache(cache)
           /\ loadedChunksState' = GetLoadedChunksInRange(cache.chunks, currentPlayerChunk)
    /\ UNCHANGED <<gameVars, pathVars, currentPlayerChunk, apiCalls, generated, indexVars,
                   playerPosition, lastPlayerChunk, mounted, updates>>

\* the useFrame handler "Update chunks based on player position", when the
\* player is in another chunk than at the last update
TrFrameUpdate(currentChunk) ==
    \E t \in ClockReadings :
    \E upd \in {UpdatePlayerPosition(loadedChunks, currentPlayerChunk,
                                     playerPosition[1], playerPosition[2])} :
    \E unloaded \in {UnloadChunks(loadedChunks, upd.chunksToUnload)} :
    \E cache \in {GetChunks([chunks |-> unloaded, rng |-> rngPos],
                            upd.chunksToLoad, t)} :
        /\ updates < MaxUpdates
        /\ updates' = updates + 1
        /\ now' = t
        /\ currentPlayerChunk' = upd.currentPlayerChunk
        /\ loadedChunksState' = GetLoadedChunksInRange(cache.chunks, upd.currentPlayerChunk)
        /\ lastPlayerChunk' = currentChunk
        /\ loadedChunks' = CleanupOldChunks(cache.chunks, upd.currentPlayerChunk)
        /\ rngPos' = cache.rng
        /\ UNCHANGED <<gameVars, pathVars, apiCalls, generated, indexVars,
                       playerPosition, mounted, preloaded>>

\* the useFrame handler "Update chunks based on player position"
TrFrame ==
    LET currentChunk == WorldToChunk(playerPosition[1], playerPosition[2])
    IN  IF currentChunk # lastPlayerChunk
        THEN TrFrameUpdate(currentChunk)
        ELSE UNCHANGED vars

\* the chunk list the mounted components were rendered from
RenderedChunks == [k \in 1..Len(mounted) |-> mounted[k].chunkData]

\* React renders the terrain and commits the render: chunk components are
\* unmounted, updated and mounted.  A render has a cause: the Game passes a
\* new playerPosition, or the frame handler or the preload effect has set
\* the loadedChunks state.
TrRender ==
    \E pos \in {p \in PlayerPositions :
                    p # playerPosition \/ loadedChunksState # RenderedChunks} :
    \E c \in {Commit(Index, mounted, loadedChunksState, pos, pos # playerPosition)} :
        /\ playerPosition' = pos
        /\ mounted' = c.comps
        /\ SetIndex(c.idx)
        /\ UNCHANGED <<gameVars, pathVars, lastQuery, removedIds, genVars, cacheVars,
                       lastPlayerChunk, loadedChunksState, preloaded, updates>>

NextTerrain ==
    \/ TrPreload
    \/ TrFrame
    \/ TrRender

SpecTerrain == InitTerrain /\ [][NextTerrain]_vars

-----------------------------------------------------------------------------
(* Specification SpecGen: a TerrainGenerator asked for chunks *)

\* number of generateChunk calls followed
MaxGenCalls == 2

GenCoords == {<<0, 0>>, <<1, 0>>, <<2, 0>>, <<-1, 0>>, <<5, 0>>, <<-5, 5>>}

InitGen ==
    /\ IndexAtStart
    /\ PathAtStart
    /\ GameAtStart
    /\ rngPos \in 1..Len(RandomStream)
    /\ generated = << >>
    /\ CacheAtStart
    /\ TerrainAtStart

GenGenerateChunk ==
    \E coord \in GenCoords :
        /\ Len(generated) < MaxGenCalls
        /\ LET g == GenerateChunk(coord, rngPos)
           IN  /\ generated' = Append(generated, g.data)
               /\ rngPos' = g.rng
        /\ UNCHANGED <<gameVars, pathVars, indexVars, cacheVars, reactVars>>

NextGen == GenGenerateChunk

SpecGen == InitGen /\ [][NextGen]_vars

-----------------------------------------------------------------------------
(* Specification SpecPath: a PathfindingManager over a CollisionManager, in a
   game whose terrain registers and removes the obstacles of a chunk and
   whose enemies ask for paths *)

\* number of findPath calls followed
MaxPathCalls == 2

\* the trees and rocks of the chunk at the origin: a tree north of the
\* diagonal from the start, four rocks around node (8, 1), and a rock at the
\* center of node (12, 5)
SceneryFeatures ==
    <<[type |-> "tree", position |-> <<27, 0, 59>>],
      [type |-> "rock", position |-> <<140, 0, 0>>],
      [type |-> "rock", position |-> <<200, 0, 0>>],
      [type |-> "rock", position |-> <<140, 0, 60>>],
      [type |-> "rock", position |-> <<200, 0, 60>>],
      [type |-> "rock", position |-> <<250, 0, 110>>]>>

\* where the enemy stands: the center of node (1, 1)
PathStart == NodeToWorld(<<1, 1>>)

\* where the player stands: the center of node (4, 3), of node (1, 2) next
\* to the tree, of node (8, 1) between the rocks, or of node (12, 5) on a rock
PathGoals ==
    {NodeToWorld(<<4, 3>>), NodeToWorld(<<1, 2>>), NodeToWorld(<<8, 1>>),
     NodeToWorld(<<12, 5>>)}

\* the requests of the enemies: entityRadius 0.4; an enemy stands at
\* PathStart, or between the rocks at the center of node (8, 1); the last
\* request is one without maxDistance
PathRequests ==
    {[startX |-> PathStart[1], startZ |-> PathStart[2], goalX |-> g[1], goalZ |-> g[2],
      entityRadius |-> (4 * Scale) \div 10, maxDistance |-> 6,
      allowPartialPath |-> partial, entityType |-> type] :
        g \in PathGoals, partial \in BOOLEAN, type \in {"ground", "climbing"}}
    \cup
    {[startX |-> NodeToWorld(<<8, 1>>)[1], startZ |-> NodeToWorld(<<8, 1>>)[2],
      goalX |-> NodeToWorld(<<4, 3>>)[1], goalZ |-> NodeToWorld(<<4, 3>>)[2],
      entityRadius |-> (4 * Scale) \div 10, maxDistance |-> 6,
      allowPartialPath |-> partial, entityType |-> type] :
        partial \in BOOLEAN, type \in {"ground", "flying"}}
    \cup
    {[startX |-> PathStart[1], startZ |-> PathStart[2],
      goalX |-> NodeToWorld(<<4, 3>>)[1], goalZ |-> NodeToWorld(<<4, 3>>)[2],
      entityRadius |-> (4 * Scale) \div 10, maxDistance |-> NoValue,
      allowPartialPath |-> TRUE, entityType |-> "ground"]}

InitPath ==
    /\ IndexAtStart
    /\ PathAtStart
    /\ GameAtStart
    /\ rngPos = 1
    /\ generated = << >>
    /\ CacheAtStart
    /\ TerrainAtStart

\* the chunk component's effect registers the obstacles of the chunk
PfRegister ==
    /\ DOMAIN allObjects = {}
    /\ SetIndex(AddObstacles(Index, SceneryFeatures, <<0, 0>>).idx)
    /\ lastPath' = NoPath
    /\ UNCHANGED <<gameVars, pathCache, pathCalls, lastQuery, removedIds, genVars, cacheVars, reactVars>>

\* the chunk component's cleanup removes them
PfUnregister ==
    /\ DOMAIN allObjects # {}
    /\ SetIndex(RemoveObstacles(Index, SceneryFeatures))
    /\ lastPath' = NoPath
    /\ UNCHANGED <<gameVars, pathCache, pathCalls, lastQuery, removedIds, genVars, cacheVars, reactVars>>

\* an enemy calls findPath
PfFindPath ==
    /\ pathCalls < MaxPathCalls
    /\ \E request \in PathRequests, t1 \in ClockReadings :
       \E t2 \in {t \in {t1, t1 + 1} : t <= MaxTime} :
       \E f \in {FindPath(Index, pathCache, request, t1, t2)} :
        /\ pathCalls' = pathCalls + 1
        /\ lastPath' = f.call
        /\ pathCache' = f.cache
        /\ now' = f.clock
        /\ UNCHANGED <<gameVars, indexVars, genVars, loadedChunks, currentPlayerChunk, apiCalls,
                       reactVars>>

\* the caller of findPath passes the path it received to smoothPath
PfSmoothPath ==
    /\ lastPath.kind = "findPath"
    /\ \E sp \in {SmoothPath(Index, lastPath.result.path, lastPath.request.entityRadius)} :
         lastPath' = [lastPath EXCEPT !.kind = "smoothPath",
                                      !.smoothed = sp.smoothed,
                                      !.ended = sp.ended]
    /\ UNCHANGED <<gameVars, pathCache, pathCalls, indexVars, genVars, cacheVars, reactVars>>

\* clearCache()
PfClearCache ==
    \E t \in ClockReadings :
        /\ pathCache # EmptyMap
        /\ pathCache' = ClearCache(pathCache, t)
        /\ now' = t
        /\ lastPath' = NoPath
        /\ UNCHANGED <<gameVars, pathCalls, indexVars, genVars, loadedChunks, currentPlayerChunk,
                       apiCalls, reactVars>>

NextPath ==
    \/ PfRegister
    \/ PfUnregister
    \/ PfFindPath
    \/ PfSmoothPath
    \/ PfClearCache

SpecPath == InitPath /\ [][NextPath]_vars

-----------------------------------------------------------------------------
(* Specification SpecWave: the waves of a game component.  Game spawns
   Math.min(wave + 2, 6) enemies; OptimizedGame spawns getMaxEnemies() of
   them, under the quality settings its PerformanceOptimizer hands it *)

\* the last wave followed
MaxWave == 6

Min2(a, b) == IF a <= b THEN a ELSE b

\* Game: const enemyCount = Math.min(gameState.wave + 2, 6)
EnemyCount(wave) == Min2(wave + 2, 6)

\* OptimizedGame.getMaxEnemies()
GetMaxEnemies(quality, wave) == Min2(quality.maxEnemies, wave + 2)

\* the number of enemies the spawn effect of the component creates
SpawnCount(comp, quality, wave) ==
    IF comp = "Game" THEN EnemyCount(wave) ELSE GetMaxEnemies(quality, wave)

\* PerformanceOptimizer.setQualityLevel(level)
SetQualityLevel(level) ==
    LET qualityLevel == Max2(0, Min2(2, level))
    IN  [qualityLevel |-> qualityLevel,
         maxEnemies |-> CASE qualityLevel = 0 -> 25
                          [] qualityLevel = 1 -> 40
                          [] OTHER -> DefaultQuality.maxEnemies]

\* PerformanceOptimizer.emergencyCleanup()
EmergencyCleanup(quality) == [quality EXCEPT !.maxEnemies = 20]

\* PerformanceOptimizer.reduceQualityGradually()
ReduceQualityGradually(quality) ==
    [quality EXCEPT !.maxEnemies = Max2(15, (quality.maxEnemies * 8) \div 10)]

\* PerformanceOptimizer.optimizePerformance(), by the branch the metrics select
OptimizePerformance(quality, severity) ==
    CASE severity = "emergency" -> EmergencyCleanup(SetQualityLevel(0))
      [] severity = "medium" -> SetQualityLevel(1)
      [] OTHER -> ReduceQualityGradually(quality)

\* PerformanceOptimizer.increaseQuality()
IncreaseQuality(quality) ==
    IF quality.qualityLevel < 2 THEN SetQualityLevel(quality.qualityLevel + 1) ELSE quality

InitWave ==
    /\ IndexAtStart
    /\ PathAtStart
    /\ component \in {"Game", "OptimizedGame"}
    /\ gameState = GameStateAtStart
    /\ qualitySettings = DefaultQuality
    /\ spawned = EmptyMap
    /\ cleared = NotCleared
    /\ MoversAtStart
    /\ rngPos = 1
    /\ generated = << >>
    /\ CacheAtStart
    /\ TerrainAtStart

WaveRest == <<pathVars, indexVars, genVars, cacheVars, reactVars, moveVars>>

\* startGame
WvStartGame ==
    /\ ~gameState.gameStarted
    /\ gameState' = [gameState EXCEPT !.gameStarted = TRUE]
    /\ UNCHANGED <<component, qualitySettings, spawned, cleared, WaveRest>>

\* the effect "Initialize enemies"
WvSpawn ==
    /\ gameState.gameStarted
    /\ gameState.enemies.length = 0
    /\ \E count \in {SpawnCount(component, qualitySettings, gameState.wave)} :
          /\ gameState' = [gameState EXCEPT !.enemies = [length |-> count, alive |-> count]]
          /\ spawned' = MapPut(spawned, gameState.wave, count)
    /\ UNCHANGED <<component, qualitySettings, cleared, WaveRest>>

\* a hit handler sets alive: false on one enemy
WvKill ==
    /\ gameState.enemies.alive > 0
    /\ gameState' = [gameState EXCEPT !.enemies.alive = @ - 1]
    /\ UNCHANGED <<component, qualitySettings, spawned, cleared, WaveRest>>

\* the test of the wave completion effect without !gameState.betweenWaves
WaveIsCompleteWhileBetween(gs) ==
    /\ gs.enemies.alive = 0
    /\ gs.gameStarted
    /\ gs.enemies.length > 0

\* the test of the wave completion effect: no enemy alive, the game started,
\* enemies spawned, and not between waves
WaveIsComplete(gs) ==
    /\ gs.enemies.alive = 0
    /\ gs.gameStarted
    /\ gs.enemies.length > 0
    /\ ~gs.betweenWaves

\* the effect "Wave completion" (in Game: "Check win/lose conditions")
WvWaveComplete ==
    /\ WaveIsComplete(gameState)
    /\ gameState.wave < MaxWave
    /\ gameState' = [gameState EXCEPT !.wave = @ + 1, !.betweenWaves = TRUE,
                                      !.waveTimer = 60]
    /\ cleared' = NotCleared
    /\ UNCHANGED <<component, qualitySettings, spawned, WaveRest>>

\* the between-wave timer effect, waveTimer > 0: the timeout of one second
\* runs out
WvTimerTick ==
    /\ gameState.betweenWaves
    /\ gameState.waveTimer > 0
    /\ gameState' = [gameState EXCEPT !.waveTimer = @ - 1]
    /\ UNCHANGED <<component, qualitySettings, spawned, cleared, WaveRest>>

\* what the timer effect and the Enter handler set: the next wave starts
StartNextWave(gs) ==
    [gs EXCEPT !.betweenWaves = FALSE, !.waveTimer = 60,
               !.enemies = [length |-> 0, alive |-> 0]]

\* the between-wave timer effect, waveTimer <= 0
WvTimerExpired ==
    /\ gameState.betweenWaves
    /\ ~(gameState.waveTimer > 0)
    /\ gameState' = StartNextWave(gameState)
    /\ cleared' = [by |-> "timer", waveTimer |-> gameState.waveTimer]
    /\ UNCHANGED <<component, qualitySettings, spawned, WaveRest>>

\* handleEnterKey, for a keydown event with code 'Enter'
WvEnterKey ==
    /\ gameState.betweenWaves
    /\ gameState' = StartNextWave(gameState)
    /\ cleared' = [by |-> "enter", waveTimer |-> gameState.waveTimer]
    /\ UNCHANGED <<component, qualitySettings, spawned, WaveRest>>

\* the PerformanceOptimizer lowers the quality; its onQualityChange callback
\* sets the qualitySettings state of OptimizedGame
WvOptimizePerformance ==
    /\ component = "OptimizedGame"
    /\ \E severity \in {"emergency", "medium", "gradual"} :
          qualitySettings' = OptimizePerformance(qualitySettings, severity)
    /\ UNCHANGED <<component, gameState, spawned, cleared, WaveRest>>

\* the PerformanceOptimizer raises the quality
WvIncreaseQuality ==
    /\ component = "OptimizedGame"
    /\ qualitySettings.qualityLevel < 2
    /\ qualitySettings' = IncreaseQuality(qualitySettings)
    /\ UNCHANGED <<component, gameState, spawned, cleared, WaveRest>>

NextWave ==
    \/ WvStartGame
    \/ WvSpawn
    \/ WvKill
    \/ WvWaveComplete
    \/ WvTimerTick
    \/ WvTimerExpired
    \/ WvEnterKey
    \/ WvOptimizePerformance
    \/ WvIncreaseQuality

SpecWave == InitWave /\ [][NextWave]_vars

\* React runs the wave completion effect after every commit that changed its
\* dependencies: it is not put off for ever
SpecWaveFair == SpecWave /\ WF_vars(WvWaveComplete)

-----------------------------------------------------------------------------
(* Specification SpecWalk: isNodeWalkable over a CollisionManager that holds
   terrain features of all four kinds *)

\* the features addTerrainFeature is called with: two ids, the four kinds,
\* centers half a node north of the centers of nodes (7, 2) and (10, 2)
WalkObstacles ==
    {CreateCollisionBounds(id, t, <<x, 0, 40>>) :
        id \in ObstacleIds, t \in {"tree", "rock", "shop", "waterfall"}, x \in {150, 210}}

\* the nodes asked about
WalkNodes == {<<7, 2>>, <<8, 2>>}

EntityTypes == {"ground", "climbing", "flying"}

\* entityRadius 0.4
WalkRadius == (4 * Scale) \div 10

InitWalk ==
    /\ IndexAtStart
    /\ PathAtStart
    /\ GameAtStart
    /\ rngPos = 1
    /\ generated = << >>
    /\ CacheAtStart
    /\ TerrainAtStart

\* addTerrainFeature(feature)
WkAdd ==
    \E b \in WalkObstacles :
        /\ Idle
        /\ SetIndex(AddCollisionObject(Index, b))
        /\ removedIds' = removedIds \ {b.id}
        /\ lastQuery' = NoQuery
        /\ UNCHANGED <<gameVars, pathVars, genVars, cacheVars, reactVars>>

\* removeCollisionObject(id)
WkRemove ==
    \E id \in ObstacleIds :
        /\ Idle
        /\ SetIndex(RemoveCollisionObject(Index, id))
        /\ removedIds' = removedIds \cup ({id} \cap DOMAIN allObjects)
        /\ lastQuery' = NoQuery
        /\ UNCHANGED <<gameVars, pathVars, genVars, cacheVars, reactVars>>

\* isNodeWalkable(nodeX, nodeZ, entityRadius, entityType): the circle query
\* it makes
WkIsNodeWalkable ==
    \E node \in WalkNodes, entityType \in EntityTypes :
        /\ Idle
        /\ lastQuery' = [NoQuery EXCEPT
                            !.kind = "circle",
                            !.from = <<NodeToWorld(node)[1], 0, NodeToWorld(node)[2]>>,
                            !.radius = WalkRadius,
                            !.excludeTypes = WalkExcludes(entityType),
                            !.result = CheckCircleCollision(Index, NodeToWorld(node)[1],
                                                            NodeToWorld(node)[2], WalkRadius,
                                                            WalkExcludes(entityType))]
        /\ UNCHANGED <<gameVars, pathVars, allObjects, spatialGrid, removedIds, genVars,
                       cacheVars, reactVars>>

\* isNodeWalkable returns
WkReturn ==
    /\ ~Idle
    /\ lastQuery' = NoQuery
    /\ UNCHANGED <<gameVars, pathVars, allObjects, spatialGrid, removedIds, genVars,
                   cacheVars, reactVars>>

NextWalk ==
    \/ WkAdd
    \/ WkRemove
    \/ WkIsNodeWalkable
    \/ WkReturn

SpecWalk == InitWalk /\ [][NextWalk]_vars

-----------------------------------------------------------------------------
(* Specification SpecRead: the read operations of the CollisionManager and
   findPath, called between changes of the index; each leaves the index as
   its lookups leave it *)

\* the features the index is changed with: rocks and waterfalls at the
\* centers used in SpecWalk
ReadObstacles ==
    {CreateCollisionBounds(id, t, <<x, 0, 40>>) :
        id \in ObstacleIds, t \in {"rock", "waterfall"}, x \in {150, 210}}

\* the requests of an enemy at the center of node (5, 2) for a path to the
\* center of node (10, 2), where an obstacle may stand
ReadRequests ==
    {[startX |-> NodeToWorld(<<5, 2>>)[1], startZ |-> NodeToWorld(<<5, 2>>)[2],
      goalX |-> NodeToWorld(g)[1], goalZ |-> NodeToWorld(g)[2],
      entityRadius |-> WalkRadius, maxDistance |-> 6,
      allowPartialPath |-> partial, entityType |-> "ground"] :
        g \in {<<10, 2>>}, partial \in BOOLEAN}

\* no call in progress, of a query or of findPath
NoCall == Idle /\ lastPath.kind = "none"

InitRead ==
    /\ IndexAtStart
    /\ PathAtStart
    /\ GameAtStart
    /\ rngPos = 1
    /\ generated = << >>
    /\ CacheAtStart
    /\ TerrainAtStart

\* addTerrainFeature(feature)
RdAdd ==
    \E b \in ReadObstacles :
        /\ NoCall
        /\ SetIndex(AddCollisionObject(Index, b))
        /\ removedIds' = removedIds \ {b.id}
        /\ lastQuery' = NoQuery
        /\ UNCHANGED <<gameVars, pathVars, genVars, cacheVars, reactVars>>

\* removeCollisionObject(id)
RdRemove ==
    \E id \in ObstacleIds :
        /\ NoCall
        /\ SetIndex(RemoveCollisionObject(Index, id))
        /\ removedIds' = removedIds \cup ({id} \cap DOMAIN allObjects)
        /\ lastQuery' = NoQuery
        /\ UNCHANGED <<gameVars, pathVars, genVars, cacheVars, reactVars>>

\* checkPointCollision(x, y, z, excludeTypes)
RdCheckPointCollision ==
    \E x \in InXs, y \in InYs, z \in QueryZs, ex \in {{}} :
        /\ NoCall
        /\ lastQuery' = [NoQuery EXCEPT !.kind = "point", !.from = <<x, y, z>>,
                            !.excludeTypes = ex,
                            !.result = CheckPointCollision(Index, x, y, z, ex)]
        /\ SetIndex(AfterReads(Index, PointReads(x, z)))
        /\ UNCHANGED <<gameVars, pathVars, removedIds, genVars, cacheVars, reactVars>>

\* checkCircleCollision(x, z, radius, excludeTypes)
RdCheckCircleCollision ==
    \E x \in InXs, z \in QueryZs, r \in QueryRadii, ex \in {{}, {"rock"}} :
        /\ NoCall
        /\ lastQuery' = [NoQuery EXCEPT !.kind = "circle", !.from = <<x, 0, z>>,
                            !.radius = r, !.excludeTypes = ex,
                            !.result = CheckCircleCollision(Index, x, z, r, ex)]
        /\ SetIndex(AfterReads(Index, CircleReads(Index, x, z, r, ex)))
        /\ UNCHANGED <<gameVars, pathVars, removedIds, genVars, cacheVars, reactVars>>

\* checkSweptCollision(fromX, fromZ, toX, toZ, radius, excludeTypes)
RdCheckSweptCollision ==
    \E sw \in SweptInputs, ex \in {{}, {"rock"}} :
        /\ NoCall
        /\ lastQuery' = [NoQuery EXCEPT !.kind = "swept", !.from = <<sw[1], 0, sw[2]>>,
                            !.to = <<sw[3], 0, sw[4]>>, !.radius = 10,
                            !.excludeTypes = ex,
                            !.result = CheckSweptCollision(Index, sw[1], sw[2], sw[3],
                                                           sw[4], 10, ex)]
        /\ SetIndex(AfterReads(Index, SweptReads(Index, sw[1], sw[2], sw[3], sw[4], 10, ex)))
        /\ UNCHANGED <<gameVars, pathVars, removedIds, genVars, cacheVars, reactVars>>

\* getObjectsInRadius(x, z, radius)
RdGetObjectsInRadius ==
    \E x \in InXs, z \in QueryZs, r \in QueryRadii :
        /\ NoCall
        /\ lastQuery' = [NoQuery EXCEPT !.kind = "radius", !.from = <<x, 0, z>>,
                            !.radius = r,
                            !.objects = GetObjectsInRadius(Index, x, z, r)]
        /\ SetIndex(AfterReads(Index, RadiusReads(x, z, r)))
        /\ UNCHANGED <<gameVars, pathVars, removedIds, genVars, cacheVars, reactVars>>

\* the query or findPath returns
RdReturn ==
    /\ ~NoCall
    /\ lastQuery' = NoQuery
    /\ lastPath' = NoPath
    /\ UNCHANGED <<gameVars, pathCache, pathCalls, allObjects, spatialGrid, removedIds,
                   genVars, cacheVars, reactVars>>

\* findPath(request)
RdFindPath ==
    /\ NoCall
    /\ pathCalls < MaxPathCalls
    /\ \E request \in ReadRequests, t \in ClockReadings :
       \E f \in {FindPath(Index, pathCache, request, t, t)} :
        /\ pathCalls' = pathCalls + 1
        /\ lastPath' = f.call
        /\ pathCache' = f.cache
        /\ now' = f.clock
        /\ SetIndex(AfterReads(Index, FindPathReads(Index, f.call)))
        /\ UNCHANGED <<gameVars, lastQuery, removedIds, genVars, loadedChunks,
                       currentPlayerChunk, apiCalls, reactVars>>

NextRead ==
    \/ RdAdd
    \/ RdRemove
    \/ RdCheckPointCollision
    \/ RdCheckCircleCollision
    \/ RdCheckSweptCollision
    \/ RdGetObjectsInRadius
    \/ RdReturn
    \/ RdFindPath

SpecRead == InitRead /\ [][NextRead]_vars

-----------------------------------------------------------------------------
(* Specification SpecMove: the player and one enemy of a running game, moved
   by their frame callbacks over a CollisionManager that holds scenery.  The
   player stands at the origin and the enemy five units east of it. *)

MaxFrames == 3

\* the scenery: a tree next to the player or one further east, and a rock
\* between the enemy and the player
MoveObstacles ==
    {CreateCollisionBounds(<<"obj", 1>>, "tree", <<30, 0, 5>>),
     CreateCollisionBounds(<<"obj", 1>>, "tree", <<350, 0, 0>>),
     CreateCollisionBounds(<<"obj", 2>>, "rock", <<60, 0, 4>>)}

\* the enemy types that move in a way of their own, and one that does not
MoveEnemyTypes == {"ape", "acrobat", "berserker", "leaper"}

\* the keys held in a frame
MoveKeys == {{"w"}, {"w", "d"}}

\* the camera directions, of length 1000
CameraDirections == {<<1000, 0>>, <<600, 800>>}

\* Date.now() when state.clock.elapsedTime is elapsed
DateNow(elapsed) == 1000000 + elapsed

InitMove ==
    /\ IndexAtStart
    /\ PathAtStart
    /\ component = "Game"
    /\ gameState = [GameStateAtStart EXCEPT !.gameStarted = TRUE]
    /\ qualitySettings = DefaultQuality
    /\ spawned = EmptyMap
    /\ cleared = NotCleared
    /\ playerPos = <<0, 0, 0>>
    /\ \E type \in MoveEnemyTypes :
          enemy = EnemyAtMount(type, <<5 * Scale, 0, 0>>, <<0, 0, 0>>)
    /\ \E elapsed \in {1000, 4500} :
          frameClock = [elapsedTime |-> elapsed, frames |-> 0, last |-> "none"]
    /\ rngPos = 1
    /\ generated = << >>
    /\ CacheAtStart
    /\ TerrainAtStart

MoveRest == <<waveVars, lastQuery, generated, cacheVars, reactVars>>

\* addTerrainFeature(feature), before the first frame
MvAdd ==
    \E b \in MoveObstacles :
        /\ frameClock.frames = 0
        /\ b.id \notin DOMAIN allObjects
        /\ SetIndex(AddCollisionObject(Index, b))
        /\ removedIds' = removedIds \ {b.id}
        /\ UNCHANGED <<MoveRest, pathVars, rngPos, moveVars>>

\* EnhancedThirdPersonPlayer, useFrame with axis-separated movement
MvPlayerFrame ==
    \E keys \in MoveKeys, dir \in CameraDirections :
        /\ frameClock.frames < MaxFrames
        /\ playerPos' = PlayerFrameAxis(Index, playerPos, keys, dir)
        /\ frameClock' = [frameClock EXCEPT !.frames = @ + 1, !.last = "player"]
        /\ UNCHANGED <<MoveRest, pathVars, rngPos, enemy, allObjects, spatialGrid,
                       removedIds>>

\* EnhancedThirdPersonPlayer, useFrame with slide movement
MvPlayerSlideFrame ==
    \E keys \in MoveKeys, dir \in CameraDirections :
        /\ frameClock.frames < MaxFrames
        /\ playerPos' = PlayerFrameSlide(Index, playerPos, keys, dir)
        /\ frameClock' = [frameClock EXCEPT !.frames = @ + 1, !.last = "player"]
        /\ UNCHANGED <<MoveRest, pathVars, rngPos, enemy, allObjects, spatialGrid,
                       removedIds>>

\* EnhancedEnemy, useFrame, one frame after the last
MvEnemyFrame ==
    /\ frameClock.frames < MaxFrames
    /\ \E elapsed \in {frameClock.elapsedTime + FrameDelta} :
       \E r \in {EnemyFrame(Index, pathCache, enemy, playerPos, elapsed, rngPos,
                            DateNow(elapsed))} :
          /\ enemy' = r.enemy
          /\ rngPos' = r.rng
          /\ pathCache' = r.cache
          /\ pathCalls' = pathCalls + (IF r.call.kind = "none" THEN 0 ELSE 1)
          /\ frameClock' = [elapsedTime |-> elapsed, frames |-> frameClock.frames + 1,
                            last |-> "enemy"]
    /\ UNCHANGED <<MoveRest, lastPath, playerPos, allObjects, spatialGrid, removedIds>>

NextMove == MvAdd \/ MvPlayerFrame \/ MvPlayerSlideFrame \/ MvEnemyFrame

SpecMove == InitMove /\ [][NextMove]_vars

-----------------------------------------------------------------------------
(* Claims about the TerrainGenerator, checked under SpecGen *)

\* C1: generating the same chunk coordinate twice yields the same biome and the
\* same features (number, id, kind, position, scale, rotation).
C1_SameCoordSameChunk ==
    \A i, j \in 1..Len(generated) :
        generated[i].coord = generated[j].coord => generated[i] = generated[j]

\* the features of kind shop in a ChunkData
ShopsOf(data) ==
    SelectSeq(data.features, LAMBDA f : f.type = "shop")

\* C21: a generated chunk holds exactly one shop, at the center of the chunk,
\* when both coordinates are multiples of 5 (negative ones too) and the chunk
\* is not the origin; it holds no shop otherwise; hasShopAt gives the same
\* answer.
C21_ShopOnEveryFifthChunk ==
    \A i \in 1..Len(generated) :
        LET data == generated[i]
            c == data.coord
            onGrid == c[1] % 5 = 0 /\ c[2] % 5 = 0 /\ c # <<0, 0>>
        IN  /\ HasShopAt(c) = onGrid
            /\ Len(ShopsOf(data)) = IF onGrid THEN 1 ELSE 0
            /\ onGrid =>
                  /\ ShopsOf(data)[1].position[1] = c[1] * ChunkSize + ChunkSize \div 2
                  /\ ShopsOf(data)[1].position[3] = c[2] * ChunkSize + ChunkSize \div 2

\* C21 witness: the origin, a chunk off the grid and a chunk of negative
\* coordinate on the grid were generated, the last with its shop
C21_Witness ==
    /\ \E i \in 1..Len(generated) :
          /\ generated[i].coord[1] < 0
          /\ generated[i].coord[1] % 5 = 0
          /\ generated[i].coord[2] % 5 = 0
          /\ Len(ShopsOf(generated[i])) = 1
    /\ \E i \in 1..Len(generated) :
          generated[i].coord = <<0, 0>> /\ ShopsOf(generated[i]) = << >>

\* the trees of a chunk, in feature order
TreesOf(data) == SelectSeq(data.features, LAMBDA f : f.type = "tree")

\* C35: in every generated chunk no two trees are closer than the minimum
\* spacing of the chunk's biome, and every tree stands inside the chunk:
\* from the chunk's origin (inclusive) to origin + chunkSize (exclusive) on
\* both axes.
C35_TreesSpacedAndInsideChunk ==
    \A n \in 1..Len(generated) :
        LET data == generated[n]
            trees == TreesOf(data)
            worldX == data.coord[1] * ChunkSize
            worldZ == data.coord[2] * ChunkSize
        IN  /\ \A i, j \in 1..Len(trees) :
                  i # j => Sq(trees[i].position[1] - trees[j].position[1])
                             + Sq(trees[i].position[3] - trees[j].position[3])
                                >= Sq(TreeSpacing(data.biome))
            /\ \A i \in 1..Len(trees) :
                  /\ trees[i].position[1] >= worldX
                  /\ trees[i].position[1] < worldX + ChunkSize
                  /\ trees[i].position[3] >= worldZ
                  /\ trees[i].position[3] < worldZ + ChunkSize

\* C35 witness: a generated chunk holds two trees exactly the minimum
\* spacing apart, one of them on the chunk's origin edge
C35_Witness ==
    \E n \in 1..Len(generated) :
        LET data == generated[n]
            trees == TreesOf(data)
        IN  \E i, j \in 1..Len(trees) :
              /\ i # j
              /\ Sq(trees[i].position[1] - trees[j].position[1])
                    + Sq(trees[i].position[3] - trees[j].position[3])
                       = Sq(TreeSpacing(data.biome))
              /\ \/ trees[i].position[1] = data.coord[1] * ChunkSize
                 \/ trees[i].position[3] = data.coord[2] * ChunkSize

-----------------------------------------------------------------------------
(* Claims about the chunk cache and the terrain component.  A state of      *)
(* SpecTerrain lies between two handlers: it is a point where the other     *)
(* frame callbacks of the game (player movement, enemies, path planning)    *)
(* run their collision queries.                                             *)

\* the tree and rock features of the chunks now in loadedChunks
ResidentObstacleFeatures ==
    UNION {{loadedChunks[k].data.features[i] :
                i \in {j \in 1..Len(loadedChunks[k].data.features) :
                          IsObstacleFeature(loadedChunks[k].data.features[j])}} :
           k \in 1..Len(loadedChunks)}

\* C7: whenever a query can run, every obstacle in the index comes from a
\* chunk that is resident in the cache: no obstacle of a chunk dropped by
\* unloadChunk or cleanupOldChunks is still in the index.
C7_ObstaclesFromResidentChunks ==
    \A id \in DOMAIN allObjects :
        \E f \in ResidentObstacleFeatures : ObstacleId(f) = id

\* C8: whenever a chunk is resident and a query can run, the index holds an
\* obstacle for every tree and rock feature of that chunk.
C8_ResidentChunkFullyRegistered ==
    \A f \in ResidentObstacleFeatures : ObstacleId(f) \in DOMAIN allObjects

\* every chunk within renderRadius of the tracked chunk is resident
WindowResident ==
    \A k \in 1..Len(ChunkRange(currentPlayerChunk, RenderRadius)) :
        HasChunk(loadedChunks, ChunkRange(currentPlayerChunk, RenderRadius)[k])

\* C9: after every completed position update of the frame handler (and after
\* the initial preload), every chunk coordinate within renderRadius of the
\* tracked chunk is resident, whatever positions were tracked before.
C9_WindowResidentAfterUpdate ==
    (updates > 0 \/ preloaded) => WindowResident

\* C9 witness: two position updates have completed, the second a jump over
\* several chunks to chunk (7, 0), and the window around it is resident
C9_Witness ==
    /\ updates >= 2
    /\ preloaded
    /\ currentPlayerChunk = <<7, 0>>
    /\ WindowResident
    /\ Len(loadedChunks) = Len(ChunkRange(currentPlayerChunk, RenderRadius))

\* C10: once cleanupOldChunks has run, the number of resident chunks is at
\* most maxCachedChunks, unless every resident chunk lies within renderRadius
\* of the tracked chunk.
C10_CleanupBoundsCache ==
    apiCalls.last = "cleanupOldChunks" =>
        \/ Len(loadedChunks) <= MaxCachedChunks
        \/ \A k \in 1..Len(loadedChunks) :
               ChunkDistance(loadedChunks[k].key, currentPlayerChunk) <= RenderRadius

\* a step of SpecChunk that is the call of the named ChunkManager method
IsCall(name) == apiCalls'.count # apiCalls.count /\ apiCalls'.last = name

\* C11: a cleanupOldChunks call removes no chunk whose Chebyshev distance from
\* the tracked chunk is at most renderRadius, whatever its lastAccessed time
\* and however many chunks are resident.
C11_CleanupKeepsWindow ==
    [][IsCall("cleanupOldChunks") =>
          \A k \in 1..Len(loadedChunks) :
             ChunkDistance(loadedChunks[k].key, currentPlayerChunk) <= RenderRadius
                => HasChunk(loadedChunks', loadedChunks[k].key)]_vars

\* C11 witness: cleanupOldChunks has removed the column of chunks behind the
\* player (only it removes chunk (-1, 0)) and has kept chunks of the window
\* that are as old, with more than maxCachedChunks chunks left
C11_Witness ==
    /\ apiCalls.last = "cleanupOldChunks"
    /\ ~HasChunk(loadedChunks, <<-1, 0>>)
    /\ HasChunk(loadedChunks, <<0, 0>>)
    /\ currentPlayerChunk = <<1, 0>>
    /\ Len(loadedChunks) > MaxCachedChunks

\* C33: a cleanupOldChunks call with at most maxCachedChunks resident chunks
\* removes nothing, and every chunk a call removes was accessed no later
\* than every chunk outside the render radius that the call leaves resident.
C33_CleanupEvictsLeastRecentlyUsed ==
    [][IsCall("cleanupOldChunks") =>
          /\ Len(loadedChunks) <= MaxCachedChunks => loadedChunks' = loadedChunks
          /\ \A i, j \in 1..Len(loadedChunks) :
                (/\ ~HasChunk(loadedChunks', loadedChunks[i].key)
                 /\ HasChunk(loadedChunks', loadedChunks[j].key)
                 /\ ChunkDistance(loadedChunks[j].key, currentPlayerChunk) > RenderRadius)
                    => loadedChunks[i].lastAccessed <= loadedChunks[j].lastAccessed]_vars

\* C33 witness: with chunk (1, 0) tracked, cleanupOldChunks has removed chunk
\* (-1, 0) of the preloaded area (only it removes that chunk) and has left
\* resident chunk (3, 0), which is outside the render radius and was
\* accessed later than the preloaded area
C33_Witness ==
    /\ apiCalls.last = "cleanupOldChunks"
    /\ currentPlayerChunk = <<1, 0>>
    /\ HasChunk(loadedChunks, <<1, 1>>)
    /\ ~HasChunk(loadedChunks, <<-1, 0>>)
    /\ HasChunk(loadedChunks, <<3, 0>>)
    /\ ChunkDistance(<<3, 0>>, currentPlayerChunk) > RenderRadius
    /\ ChunkEntry(loadedChunks, <<3, 0>>).lastAccessed
          > ChunkEntry(loadedChunks, <<1, 1>>).lastAccessed

\* C34: no call changes the biome or the features of a chunk that stays
\* resident; a getChunk call for a resident coordinate makes no draw from
\* Math.random (the generator is not called), keeps the entries, their order
\* and their data, and changes the lastAccessed time of that chunk alone.
C34_ResidentChunkIsFixed ==
    [][/\ \A i \in 1..Len(loadedChunks), j \in 1..Len(loadedChunks') :
            loadedChunks[i].key = loadedChunks'[j].key
                => loadedChunks[i].data = loadedChunks'[j].data
       /\ (IsCall("getChunk") /\ HasChunk(loadedChunks, apiCalls'.args)) =>
            /\ rngPos' = rngPos
            /\ Len(loadedChunks') = Len(loadedChunks)
            /\ \A k \in 1..Len(loadedChunks) :
                  /\ loadedChunks'[k].key = loadedChunks[k].key
                  /\ loadedChunks'[k].data = loadedChunks[k].data
                  /\ loadedChunks[k].key # apiCalls'.args
                        => loadedChunks'[k] = loadedChunks[k]
            /\ ChunkEntry(loadedChunks', apiCalls'.args).lastAccessed = now']_vars

\* C34 witness: getChunk was called for a chunk that was resident (another
\* chunk was loaded after it) and has given it a later access time than
\* that of the chunk loaded after it
C34_Witness ==
    /\ apiCalls.last = "getChunk"
    /\ \E k \in 1..(Len(loadedChunks) - 1) :
          /\ loadedChunks[k].key = apiCalls.args
          /\ loadedChunks[k].lastAccessed > loadedChunks[k + 1].lastAccessed
          /\ loadedChunks[k].data.features # << >>

\* C12: an updatePlayerPosition call with a position in the tracked chunk
\* returns two empty lists and changes nothing; with a position in another
\* chunk it returns as chunksToLoad exactly the coordinates within renderRadius
\* of the new chunk that are not resident, as chunksToUnload exactly the
\* resident keys outside that window, each once, tracks the new chunk, and
\* loads and unloads nothing.
C12_UpdateReturnsExactDifference ==
    [][IsCall("updatePlayerPosition") =>
          LET newChunk == WorldToChunk(apiCalls'.args[1], apiCalls'.args[2])
              required == {<<x, z>> :
                             x \in (newChunk[1] - RenderRadius)..(newChunk[1] + RenderRadius),
                             z \in (newChunk[2] - RenderRadius)..(newChunk[2] + RenderRadius)}
              toLoad == apiCalls'.result.chunksToLoad
              toUnload == apiCalls'.result.chunksToUnload
          IN  /\ loadedChunks' = loadedChunks
              /\ rngPos' = rngPos
              /\ IF newChunk = currentPlayerChunk
                 THEN /\ toLoad = << >>
                      /\ toUnload = << >>
                      /\ currentPlayerChunk' = currentPlayerChunk
                 ELSE /\ SeqToSet(toLoad) = required \ ChunkKeys(loadedChunks)
                      /\ Cardinality(SeqToSet(toLoad)) = Len(toLoad)
                      /\ SeqToSet(toUnload) = ChunkKeys(loadedChunks) \ required
                      /\ Cardinality(SeqToSet(toUnload)) = Len(toUnload)
                      /\ currentPlayerChunk' = newChunk]_vars

\* C12 witness: an updatePlayerPosition call has moved the tracked chunk and
\* returned chunks to load and chunks to unload
C12_Witness ==
    /\ apiCalls.last = "updatePlayerPosition"
    /\ apiCalls.result.chunksToLoad # << >>
    /\ apiCalls.result.chunksToUnload # << >>
    /\ currentPlayerChunk = <<1, 0>>

\* ids of obstacles that are not in the index: the trees and rocks of resident
\* chunks that are not registered, and an id no chunk ever produced
AbsentObstacleIds ==
    ({ObstacleId(f) : f \in ResidentObstacleFeatures} \cup {<<"tree", 1, 1>>})
        \ DOMAIN allObjects

\* chunk coordinates around the tracked chunk that are not resident
AbsentChunkKeys ==
    {key \in SeqToSet(ChunkRange(currentPlayerChunk, RenderRadius + 1)) :
        ~HasChunk(loadedChunks, key)}

\* C20: removeCollisionObject with an id that is not in the index leaves the
\* object map and the grid cells as they are, and unloadChunk with a coordinate
\* that is not resident leaves the resident chunks as they are; both return
\* normally.
C20_RemovingAbsentChangesNothing ==
    /\ \A id \in AbsentObstacleIds : RemoveCollisionObject(Index, id) = Index
    /\ \A key \in AbsentChunkKeys : UnloadChunk(loadedChunks, key) = loadedChunks

\* C20 witness: obstacles are indexed and chunks resident, while an obstacle id
\* of a resident chunk is not in the index and a chunk next to the window is
\* not resident
C20_Witness ==
    /\ DOMAIN allObjects # {}
    /\ \E f \in ResidentObstacleFeatures : ObstacleId(f) \in AbsentObstacleIds
    /\ loadedChunks # << >>
    /\ AbsentChunkKeys # {}

-----------------------------------------------------------------------------
(* Claims about the CollisionManager, checked under SpecIndex *)

\* the cells the claim names: floor((x-r)/cellSize) <= gx <= floor((x+r)/cellSize),
\* and the same on z
ClaimedCells(b) ==
    {<<gx, gz>> :
        gx \in ((b.position[1] - b.radius) \div CellSize)..((b.position[1] + b.radius) \div CellSize),
        gz \in ((b.position[3] - b.radius) \div CellSize)..((b.position[3] + b.radius) \div CellSize)}

CountId(list, id) == Cardinality({i \in 1..Len(list) : list[i].id = id})

\* C2: every obstacle of the object map is listed exactly once in each cell its
\* bounding square covers and in no other cell, and every cell entry is the
\* object map's obstacle of that id.
C2_GridMatchesObjectMap ==
    /\ \A id \in DOMAIN allObjects :
          LET b == allObjects[id]
          IN  /\ \A key \in ClaimedCells(b) :
                    key \in DOMAIN spatialGrid /\ CountId(spatialGrid[key], id) = 1
              /\ \A key \in (DOMAIN spatialGrid) \ ClaimedCells(b) :
                    CountId(spatialGrid[key], id) = 0
    /\ \A key \in DOMAIN spatialGrid :
          \A i \in 1..Len(spatialGrid[key]) :
             LET e == spatialGrid[key][i]
             IN  e.id \in DOMAIN allObjects /\ allObjects[e.id] = e

\* C2 witness: an obstacle is indexed over four cells after an obstacle was
\* removed
C2_Witness ==
    /\ Cardinality(DOMAIN allObjects) >= 1
    /\ removedIds # {}
    /\ \E id \in DOMAIN allObjects : Cardinality(ClaimedCells(allObjects[id])) >= 4
    /\ \E key \in DOMAIN spatialGrid : Len(spatialGrid[key]) >= 1

OwnCenterQuery(id) ==
    LET b == allObjects[id]
    IN  CheckPointCollision(Index, b.position[1], b.position[2], b.position[3], {})

\* C3 as stated: a point query at an indexed obstacle's own center returns that
\* obstacle.
C3_OwnCenterReturnsThatObstacle ==
    \A id \in DOMAIN allObjects :
        OwnCenterQuery(id).hit /\ OwnCenterQuery(id).object = allObjects[id]

\* C3 amended: a point query at an indexed obstacle's own center reports a hit
\* with an indexed obstacle that contains the point: the obstacle itself, or one
\* listed before it in the cell of the point.
C3_OwnCenterHitsContainingObstacle ==
    \A id \in DOMAIN allObjects :
        LET b == allObjects[id]
            r == OwnCenterQuery(id)
            cell == spatialGrid[WorldToGrid(b.position[1], b.position[3])]
        IN  /\ r.hit
            /\ r.object.id \in DOMAIN allObjects
            /\ allObjects[r.object.id] = r.object
            /\ PointInside(b.position[1], b.position[2], b.position[3], r.object)
            /\ \/ r.object = b
               \/ \E i, j \in 1..Len(cell) : i < j /\ cell[i] = r.object /\ cell[j] = b

\* C3 witness: the query at an obstacle's center returns another, overlapping one
C3_Witness ==
    \E id \in DOMAIN allObjects :
        OwnCenterQuery(id).hit /\ OwnCenterQuery(id).object.id # id

\* C4: no query returns an obstacle whose id was removed and not inserted again.
C4_RemovedIdNeverReturned ==
    /\ lastQuery.result.hit => lastQuery.result.object.id \notin removedIds
    /\ \A i \in 1..Len(lastQuery.objects) : lastQuery.objects[i].id \notin removedIds

\* C4 witness: a query returns an obstacle while another id stands removed
C4_Witness ==
    /\ removedIds # {}
    /\ lastQuery.kind \in {"point", "circle", "swept"}
    /\ lastQuery.result.hit

\* C5: no grid cell has an empty obstacle list, and with no obstacle left the
\* grid has no cell.
C5_NoEmptyCells ==
    /\ \A key \in DOMAIN spatialGrid : Len(spatialGrid[key]) > 0
    /\ (DOMAIN allObjects = {}) => (DOMAIN spatialGrid = {})

\* C5 witness: every id was inserted and removed again
C5_Witness ==
    /\ DOMAIN allObjects = {}
    /\ removedIds = ObstacleIds
    /\ DOMAIN spatialGrid = {}

\* C6: a circle query hits iff some indexed obstacle of a kind that is not
\* excluded has its center strictly closer than radius + obstacle.radius, and
\* the obstacle returned is such an obstacle.
C6_CircleQueryIffBruteForce ==
    lastQuery.kind = "circle" =>
        LET x == lastQuery.from[1]
            z == lastQuery.from[3]
            Blocks(o) == /\ o.type \notin lastQuery.excludeTypes
                         /\ Sq(x - o.position[1]) + Sq(z - o.position[3])
                                < Sq(lastQuery.radius + o.radius)
        IN  /\ lastQuery.result.hit <=> \E id \in DOMAIN allObjects : Blocks(allObjects[id])
            /\ lastQuery.result.hit =>
                  /\ lastQuery.result.object.id \in DOMAIN allObjects
                  /\ Blocks(lastQuery.result.object)

\* C6 witness: a circle query hits an obstacle that lies in another cell than
\* the query center, while an excluded obstacle overlaps the query circle too
C6_Witness ==
    /\ lastQuery.kind = "circle"
    /\ lastQuery.result.hit
    /\ WorldToGrid(lastQuery.result.object.position[1], lastQuery.result.object.position[3])
          # WorldToGrid(lastQuery.from[1], lastQuery.from[3])
    /\ \E id \in DOMAIN allObjects :
          /\ allObjects[id].type \in lastQuery.excludeTypes
          /\ CirclesOverlap(lastQuery.from[1], lastQuery.from[3], lastQuery.radius, allObjects[id])

\* the circle of the given radius, moved along the segment from p to q,
\* overlaps obstacle o somewhere: the distance from the obstacle center to the
\* segment is below radius + o.radius
SegmentOverlaps(p, q, radius, o) ==
    LET dx == q[1] - p[1]
        dz == q[3] - p[3]
        wx == o.position[1] - p[1]
        wz == o.position[3] - p[3]
        dot == wx * dx + wz * dz
        dd == dx * dx + dz * dz
        reach == Sq(radius + o.radius)
    IN  IF dot <= 0 THEN Sq(wx) + Sq(wz) < reach
        ELSE IF dot >= dd THEN Sq(o.position[1] - q[1]) + Sq(o.position[3] - q[3]) < reach
        ELSE (Sq(wx) + Sq(wz)) * dd - dot * dot < reach * dd

\* C17: a swept query reports a hit whenever, at some point of its segment,
\* the query circle overlaps an indexed obstacle of a kind that is not
\* excluded and whose diameter is below cellSize.
C17_SweptSkipsNoSmallObstacle ==
    lastQuery.kind = "swept" =>
        ((\E id \in DOMAIN allObjects :
              /\ allObjects[id].type \notin lastQuery.excludeTypes
              /\ 2 * allObjects[id].radius < CellSize
              /\ SegmentOverlaps(lastQuery.from, lastQuery.to, lastQuery.radius,
                                 allObjects[id]))
            => lastQuery.result.hit)

\* C19: whenever an insert can be called (no other call is in progress),
\* inserting an obstacle, whether or not its id is in the index, leaves
\* exactly one obstacle with that id, the inserted one, listed once in every
\* cell the new bounds cover and in no other cell; inserting it a second time
\* leaves the index as the first insert left it.
C19_InsertIsIdempotentUpsert ==
    Idle => \A b \in ObstacleInputs :
        LET once == AddCollisionObject(Index, b)
            twice == AddCollisionObject(once, b)
        IN  /\ twice = once
            /\ b.id \in DOMAIN once.allObjects
            /\ once.allObjects[b.id] = b
            /\ ClaimedCells(b) \subseteq DOMAIN once.spatialGrid
            /\ \A key \in DOMAIN once.spatialGrid :
                  CountId(once.spatialGrid[key], b.id)
                      = IF key \in ClaimedCells(b) THEN 1 ELSE 0

\* C19 witness: an id is indexed with bounds that cover a cell which the
\* bounds of an insert under the same id do not cover, next to another
\* obstacle, and the insert leaves the id out of that cell
C19_Witness ==
    \E b \in ObstacleInputs :
        /\ b.id \in DOMAIN allObjects
        /\ Cardinality(DOMAIN allObjects) >= 2
        /\ \E key \in ClaimedCells(allObjects[b.id]) \ ClaimedCells(b) :
              /\ CountId(spatialGrid[key], b.id) = 1
              /\ LET once == AddCollisionObject(Index, b)
                 IN  key \in DOMAIN once.spatialGrid
                        => CountId(once.spatialGrid[key], b.id) = 0

-----------------------------------------------------------------------------
(* Claims about the PathfindingManager, checked under SpecPath *)

\* checkSweptCollision between every pair of consecutive waypoints reports no hit
PathSweepsClear(idx, path, radius) ==
    \A i \in 1..(Len(path) - 1) :
        ~CheckSweptCollision(idx, path[i][1], path[i][2], path[i + 1][1], path[i + 1][2],
                             radius, {}).hit

\* the path the last call returned
ReturnedPath ==
    IF lastPath.kind = "smoothPath" THEN lastPath.smoothed ELSE lastPath.result.path

\* C13: every path returned by findPath, and every path smoothPath makes of
\* it, passes a swept check with the request's entityRadius between each pair
\* of consecutive waypoints, against the index as it is when the path is
\* returned.
C13_ReturnedPathsSweepClear ==
    lastPath.kind \in {"findPath", "smoothPath"} =>
        PathSweepsClear(Index, ReturnedPath, lastPath.request.entityRadius)

\* none of the eight neighbors of the node is walkable
Enclosed(idx, node, entityRadius, entityType) ==
    \A i \in 1..8 : ~IsNodeWalkable(idx, GetNeighbors(node)[i], entityRadius, entityType)

\* the goal node is blocked, or it is enclosed and the start is another node
NoWalkableRoute(idx, request) ==
    LET startNode == WorldToNode(request.startX, request.startZ)
        goalNode == WorldToNode(request.goalX, request.goalZ)
    IN  \/ ~IsNodeWalkable(idx, goalNode, request.entityRadius, request.entityType)
        \/ /\ startNode # goalNode
           /\ Enclosed(idx, goalNode, request.entityRadius, request.entityType)

\* C14: a findPath call with allowPartialPath = false, made when the index
\* leaves no walkable route from the start to the goal, returns found = false
\* and an empty path, whatever calls came before it.
C14_NoRouteNoPartialIsNotFound ==
    (/\ lastPath.kind = "findPath"
     /\ ~lastPath.request.allowPartialPath
     /\ NoWalkableRoute(Index, lastPath.request))
        => (~lastPath.result.found /\ lastPath.result.path = << >>)

\* no indexed obstacle is within reach of the circle of the entity anywhere
\* on the straight segment from the start to the goal of the request
LineIsClear(idx, request) ==
    \A id \in DOMAIN idx.allObjects :
        ~SegmentOverlaps(<<request.startX, 0, request.startZ>>,
                         <<request.goalX, 0, request.goalZ>>,
                         request.entityRadius, idx.allObjects[id])

\* C15: when the start and the goal of a request are in distinct nodes and no
\* obstacle is between them, smoothPath makes of a path that findPath
\* returned, and that reaches the goal, exactly the two waypoints start and
\* goal.
C15_ClearLineSmoothsToTwo ==
    (/\ lastPath.kind = "smoothPath"
     /\ lastPath.result.found
     /\ lastPath.result.path[Len(lastPath.result.path)]
           = <<lastPath.request.goalX, lastPath.request.goalZ>>
     /\ WorldToNode(lastPath.request.startX, lastPath.request.startZ)
           # WorldToNode(lastPath.request.goalX, lastPath.request.goalZ)
     /\ LineIsClear(Index, lastPath.request))
        => lastPath.smoothed = <<<<lastPath.request.startX, lastPath.request.startZ>>,
                                 <<lastPath.request.goalX, lastPath.request.goalZ>>>>

\* the place of a waypoint in a path without repeated waypoints
IndexIn(path, w) == CHOOSE i \in 1..Len(path) : path[i] = w

\* C23: in the path smoothPath returns, each waypoint is followed by the
\* farthest later waypoint of the raw path that a swept query from it reaches
\* without a hit: no waypoint of the raw path after the successor is
\* reachable from it.
C23_SmoothPathTakesFarthest ==
    lastPath.kind = "smoothPath" =>
        LET raw == lastPath.result.path
            smoothed == lastPath.smoothed
        IN  \A k \in 1..(Len(smoothed) - 1) :
                \A m \in (IndexIn(raw, smoothed[k + 1]) + 1)..Len(raw) :
                    CheckSweptCollision(Index, smoothed[k][1], smoothed[k][2],
                                        raw[m][1], raw[m][2],
                                        lastPath.request.entityRadius, {}).hit

\* the least heuristic distance to the target among the expanded nodes
LeastExpandedH ==
    CHOOSE h \in {Heuristic(n, lastPath.target) : n \in lastPath.expanded} :
        \A n \in lastPath.expanded : h <= Heuristic(n, lastPath.target)

\* the node whose center is the last waypoint of the returned path
LastNode ==
    WorldToNode(lastPath.result.path[Len(lastPath.result.path)][1],
                lastPath.result.path[Len(lastPath.result.path)][2])

\* the last findPath call searched and its search ended without taking the
\* target from the open set
SearchFellShort ==
    /\ lastPath.kind = "findPath"
    /\ lastPath.served = "search"
    /\ lastPath.target # << >>
    /\ ~lastPath.reached

\* C24 as stated: a search that ends without reaching the goal returns, with
\* allowPartialPath true, found = true and a path that ends at an expanded
\* node of least heuristic distance to the goal, and with allowPartialPath
\* false, found = false.
C24_PartialPathAlwaysFound ==
    SearchFellShort =>
        IF lastPath.request.allowPartialPath
        THEN /\ lastPath.result.found
             /\ lastPath.result.path # << >>
             /\ LastNode \in lastPath.expanded
             /\ Heuristic(LastNode, lastPath.target) = LeastExpandedH
        ELSE lastPath.result = NotFound

\* C24: a search that ends without reaching the goal returns, with
\* allowPartialPath true and an expanded node nearer to the goal (by the
\* heuristic) than the start node, found = true and a path that ends at an
\* expanded node of least heuristic distance to the goal; it returns
\* found = false with an empty path when allowPartialPath is false or no
\* expanded node is nearer to the goal than the start node.
C24_PartialPathEndsAtBest ==
    SearchFellShort =>
        IF /\ lastPath.request.allowPartialPath
           /\ LeastExpandedH < Heuristic(WorldToNode(lastPath.request.startX,
                                                      lastPath.request.startZ),
                                          lastPath.target)
        THEN /\ lastPath.result.found
             /\ lastPath.result.path # << >>
             /\ LastNode \in lastPath.expanded
             /\ Heuristic(LastNode, lastPath.target) = LeastExpandedH
        ELSE lastPath.result = NotFound

\* C24 witness: a search with allowPartialPath true stopped at the cap and
\* returned the path to an expanded node that is neither the start node nor
\* the last node expanded before the cap
C24_Witness ==
    /\ SearchFellShort
    /\ lastPath.request.allowPartialPath
    /\ lastPath.searchedNodes = MaxSearchNodes
    /\ lastPath.result.found
    /\ Len(lastPath.result.path) > 1
    /\ \E n \in lastPath.expanded :
          Heuristic(n, lastPath.target) > Heuristic(LastNode, lastPath.target)
          /\ n # WorldToNode(lastPath.request.startX, lastPath.request.startZ)

\* the ring of a node around another: their Chebyshev distance
RingOf(a, b) == Max2(Abs(a[1] - b[1]), Abs(a[2] - b[2]))

\* the nodes on the rings 0 to radius around a node
NodesWithin(node, radius) ==
    {<<node[1] + dx, node[2] + dz>> : dx \in (0 - radius)..radius, dz \in (0 - radius)..radius}

\* the goal node of the last request
GoalNode == WorldToNode(lastPath.request.goalX, lastPath.request.goalZ)

\* the last call was findPath and the goal node of its request is not
\* walkable for its entity
GoalUnwalkable ==
    /\ lastPath.kind = "findPath"
    /\ ~IsNodeWalkable(Index, GoalNode, lastPath.request.entityRadius,
                       lastPath.request.entityType)

CenterOf(node) ==
    <<node[1] * NodeSize + NodeSize \div 2, node[2] * NodeSize + NodeSize \div 2>>

\* two waypoints are the centers of 8-adjacent nodes
AdjacentCenters(v, w) ==
    /\ v # w
    /\ Abs(v[1] - w[1]) \in {0, NodeSize}
    /\ Abs(v[2] - w[2]) \in {0, NodeSize}

\* C28: the path of every findPath result with found = true begins at the
\* center of the start node, steps between centers of 8-adjacent nodes, holds
\* no waypoint twice, and ends at the center of the node the search was aimed
\* at when the search reached it, else at the center of an expanded node.
C28_PathRunsFromStartToTarget ==
    (lastPath.kind = "findPath" /\ lastPath.result.found) =>
        LET path == lastPath.result.path
        IN  /\ path # << >>
            /\ path[1] = CenterOf(<<lastPath.request.startX \div NodeSize,
                                    lastPath.request.startZ \div NodeSize>>)
            /\ \A i \in 1..(Len(path) - 1) : AdjacentCenters(path[i], path[i + 1])
            /\ \A i, j \in 1..Len(path) : path[i] = path[j] => i = j
            /\ lastPath.served = "search" =>
                  IF lastPath.reached
                  THEN path[Len(path)] = CenterOf(lastPath.target)
                  ELSE \E n \in lastPath.expanded : path[Len(path)] = CenterOf(n)

\* C28 witness: among obstacles, a search aimed at a node other than the goal
\* node of the request reached it over a path of two or more waypoints
C28_Witness ==
    /\ lastPath.kind = "findPath"
    /\ lastPath.served = "search"
    /\ lastPath.result.found
    /\ lastPath.reached
    /\ lastPath.target # GoalNode
    /\ DOMAIN allObjects # {}
    /\ Len(lastPath.result.path) >= 2

\* the step between two waypoints is diagonal
IsDiagonalStep(v, w) == v[1] # w[1] /\ v[2] # w[2]

\* the cost of the step between two waypoints, in 1/10000: 1 or 1.414, times
\* 0.8 for climbing entities
StepCost(v, w, entityType) ==
    LET base == IF IsDiagonalStep(v, w) THEN 14140 ELSE 10000
    IN  IF entityType = "climbing" THEN (base * 8) \div 10 ELSE base

\* the sum of the step costs along the first n waypoints of a path
RECURSIVE CostAlong(_, _, _)
CostAlong(path, n, entityType) ==
    IF n <= 1 THEN 0
    ELSE CostAlong(path, n - 1, entityType) + StepCost(path[n - 1], path[n], entityType)

\* C29: the cost of every findPath result with found = true is the sum of the
\* step costs along its waypoints: 1 for an orthogonal and 1.414 for a
\* diagonal step, times 0.8 for climbing entities.
C29_CostIsSumOfSteps ==
    (lastPath.kind = "findPath" /\ lastPath.result.found) =>
        lastPath.result.cost
            = CostAlong(lastPath.result.path, Len(lastPath.result.path),
                        lastPath.request.entityType)

\* C29 witness: a search for a climbing entity that replaced the parent of a
\* node returned a path of diagonal steps, whose cost is not a whole number
\* of orthogonal steps
C29_Witness ==
    /\ lastPath.kind = "findPath"
    /\ lastPath.result.found
    /\ lastPath.replaced
    /\ lastPath.request.entityType = "climbing"
    /\ Len(lastPath.result.path) >= 3
    /\ \E i \in 1..(Len(lastPath.result.path) - 1) :
          IsDiagonalStep(lastPath.result.path[i], lastPath.result.path[i + 1])
    /\ lastPath.result.cost % 8000 # 0

\* the Manhattan distance in nodes of a waypoint from the start cell of the
\* last request
FromStart(waypoint) ==
    Heuristic(WorldToNode(lastPath.request.startX, lastPath.request.startZ),
              WorldToNode(waypoint[1], waypoint[2]))

\* C36: no waypoint of a path that findPath got from a search lies further
\* than maxDistance (100 when the request has none) from the start cell in
\* Manhattan grid distance, and a search reaches no target further away.
C36_SearchHonoursMaxDistance ==
    (lastPath.kind \in {"findPath", "smoothPath"} /\ lastPath.served = "search") =>
        /\ \A i \in 1..Len(lastPath.result.path) :
              FromStart(lastPath.result.path[i]) <= MaxDistanceOf(lastPath.request)
        /\ lastPath.reached =>
              FromStart(NodeToWorld(lastPath.target)) <= MaxDistanceOf(lastPath.request)

\* C36 witness: a search for a goal further than maxDistance from the start
\* returned a partial path whose last waypoint is exactly maxDistance away
C36_Witness ==
    /\ lastPath.kind = "findPath"
    /\ lastPath.served = "search"
    /\ lastPath.target # << >>
    /\ FromStart(NodeToWorld(lastPath.target)) > MaxDistanceOf(lastPath.request)
    /\ lastPath.result.found
    /\ ~lastPath.reached
    /\ FromStart(lastPath.result.path[Len(lastPath.result.path)])
          = MaxDistanceOf(lastPath.request)

\* C37: smoothPath comes to its end and returns waypoints of its input in the
\* order of the input, the first being the first of the input and the last
\* the last of the input; an input of at most two waypoints is returned as
\* it is.  (The paths findPath returns hold no waypoint twice.)
C37_SmoothPathIsSubsequence ==
    lastPath.kind = "smoothPath" =>
        LET raw == lastPath.result.path
            smoothed == lastPath.smoothed
        IN  /\ lastPath.ended
            /\ Len(raw) <= 2 => smoothed = raw
            /\ \A k \in 1..Len(smoothed) : \E i \in 1..Len(raw) : raw[i] = smoothed[k]
            /\ \A k \in 1..(Len(smoothed) - 1) :
                  IndexIn(raw, smoothed[k]) < IndexIn(raw, smoothed[k + 1])
            /\ raw # << >> =>
                  /\ smoothed # << >>
                  /\ smoothed[1] = raw[1]
                  /\ smoothed[Len(smoothed)] = raw[Len(raw)]

\* C37 witness: smoothPath was given four or more waypoints, left one out
\* and kept one between the first and the last
C37_Witness ==
    /\ lastPath.kind = "smoothPath"
    /\ Len(lastPath.result.path) >= 4
    /\ Len(lastPath.smoothed) >= 3
    /\ Len(lastPath.smoothed) < Len(lastPath.result.path)

\* C16: a findPath call that searches takes at most maxSearchNodes nodes from
\* the open set, its path reconstruction comes to its end, and the path it
\* returns begins at the center of the start node.
C16_SearchIsBounded ==
    (lastPath.kind = "findPath" /\ lastPath.served = "search") =>
        /\ lastPath.searchedNodes <= MaxSearchNodes
        /\ lastPath.ended
        /\ lastPath.result.found =>
              /\ lastPath.result.path # << >>
              /\ lastPath.result.path[1]
                    = NodeToWorld(WorldToNode(lastPath.request.startX,
                                              lastPath.request.startZ))

\* C16 witness: among obstacles, a search for a goal it cannot reach stops
\* at the cap and returns the path to the best node it saw
C16_Witness ==
    /\ lastPath.kind = "findPath"
    /\ lastPath.served = "search"
    /\ DOMAIN allObjects # {}
    /\ lastPath.searchedNodes = MaxSearchNodes
    /\ lastPath.result.found
    /\ Len(lastPath.result.path) > 1
    /\ Enclosed(Index, WorldToNode(lastPath.request.goalX, lastPath.request.goalZ),
                lastPath.request.entityRadius, lastPath.request.entityType)

\* a step is a findPath call
IsFindPath == pathCalls' # pathCalls

\* C18: a findPath call returns the cached result, and leaves the cache as
\* it is, exactly when the key of the request has an entry whose age at the
\* cache test is strictly below the TTL; every other call returns the result
\* of a search on the index as it is, and leaves under the key that result
\* with the clock reading taken after the search, the other entries unchanged.
C18_CacheServesOnlyFresh ==
    [][IsFindPath =>
        LET request == lastPath'.request
            key == GetCacheKey(request)
        IN  IF key \in DOMAIN pathCache
                 /\ lastPath'.checkedAt - pathCache[key].timestamp < CacheTimeout
            THEN /\ lastPath'.served = "cache"
                 /\ lastPath'.result = pathCache[key].path
                 /\ pathCache' = pathCache
            ELSE /\ lastPath'.served = "search"
                 /\ lastPath'.result = AStar(Index, request).result
                 /\ DOMAIN pathCache' = DOMAIN pathCache \cup {key}
                 /\ pathCache'[key] = [path |-> lastPath'.result, timestamp |-> now']
                 /\ now' >= lastPath'.checkedAt
                 /\ \A k \in DOMAIN pathCache \ {key} : pathCache'[k] = pathCache[k]]_vars

\* C26: when a findPath call that searched is followed at once (the index
\* unchanged) by a findPath call that is answered from the cache under the
\* same key, the second call returns what a search for its own request would
\* return.
C26_CacheIsTransparent ==
    [][(/\ IsFindPath
        /\ lastPath.kind = "findPath"
        /\ lastPath.served = "search"
        /\ lastPath'.served = "cache"
        /\ GetCacheKey(lastPath'.request) = GetCacheKey(lastPath.request))
          => lastPath'.result = AStar(Index, lastPath'.request).result]_vars

\* C18 witness: among obstacles, a call found under its key an entry as old
\* as the TTL, searched again, returned a path of four waypoints and stored
\* it under the clock reading taken after the search
C18_Witness ==
    /\ lastPath.kind = "findPath"
    /\ lastPath.entryAge = CacheTimeout
    /\ lastPath.served = "search"
    /\ pathCalls = MaxPathCalls
    /\ DOMAIN allObjects # {}
    /\ Len(lastPath.result.path) = 4
    /\ pathCache[GetCacheKey(lastPath.request)].timestamp = now

-----------------------------------------------------------------------------
(* Claims about the waves, checked under SpecWave *)

\* C22: the number of enemies spawned for a wave never exceeds 6, and a later
\* wave never gets fewer enemies than an earlier one, whatever the component
\* and the quality settings.
C22_EnemiesPerWaveAtMostSix ==
    /\ \A w \in DOMAIN spawned : spawned[w] <= 6
    /\ \A v, w \in DOMAIN spawned : v < w => spawned[v] <= spawned[w]

\* all enemies of the current wave are dead
AllEnemiesDead ==
    /\ gameState.gameStarted
    /\ gameState.wave \in DOMAIN spawned
    /\ gameState.enemies.length > 0
    /\ gameState.enemies.alive = 0

\* a step that changes the wave counter adds one to it, is taken with all
\* enemies of the current wave dead and betweenWaves false, and leaves the new
\* wave without enemies spawned for it; a step that spawns the enemies of a
\* wave after the first is taken with betweenWaves false, after the timer
\* effect at waveTimer 0 or the Enter handler has cleared it
WaveStepRule ==
    /\ gameState'.wave # gameState.wave =>
          /\ gameState'.wave = gameState.wave + 1
          /\ AllEnemiesDead
          /\ ~gameState.betweenWaves
          /\ gameState'.betweenWaves
          /\ gameState'.wave \notin DOMAIN spawned'
    /\ (spawned' # spawned /\ gameState.wave > 1) =>
          /\ ~gameState.betweenWaves
          /\ gameState.wave \notin DOMAIN spawned
          /\ \/ cleared.by = "timer" /\ cleared.waveTimer = 0
             \/ cleared.by = "enter"

\* C39: the wave counter goes up by exactly one each time all enemies of the
\* current wave are dead, and never while betweenWaves is true; the enemies
\* of the next wave are spawned only after betweenWaves has been cleared by
\* the countdown at 0 or by the Enter key.
C39_WaveProgression ==
    /\ [][WaveStepRule]_vars
    /\ \A w \in 1..(MaxWave - 1) :
          (gameState.wave = w /\ AllEnemiesDead /\ ~gameState.betweenWaves)
              ~> (gameState.wave = w + 1 /\ gameState.betweenWaves)

\* C39 witness: the third wave has its enemies, spawned after the countdown
\* of the second break ran down to 0, and they are all dead
C39_Witness ==
    /\ gameState.wave = 3
    /\ AllEnemiesDead
    /\ ~gameState.betweenWaves
    /\ cleared = [by |-> "timer", waveTimer |-> 0]
    /\ DOMAIN spawned = {1, 2, 3}

-----------------------------------------------------------------------------
(* Claims about point queries, checked under SpecIndex *)

\* the indexed obstacles of a kind that the last query does not exclude, whose
\* center is at most their radius from the query point in the plane and
\* whose base is at most their height below it, by a scan of all obstacles
ObstaclesAtPoint ==
    {id \in DOMAIN allObjects :
        /\ allObjects[id].type \notin lastQuery.excludeTypes
        /\ Sq(lastQuery.from[1] - allObjects[id].position[1])
              + Sq(lastQuery.from[3] - allObjects[id].position[3])
                <= Sq(allObjects[id].radius)
        /\ lastQuery.from[2] - allObjects[id].position[2] \in 0..allObjects[id].height}

\* C30: a point query reports a hit exactly when a scan of all indexed
\* obstacles finds one that is not excluded and holds the point.
C30_PointQueryIffScan ==
    lastQuery.kind = "point" => (lastQuery.result.hit <=> ObstaclesAtPoint # {})

\* C30 witness: a point query hit an obstacle whose center lies in another
\* cell than the point, while an excluded obstacle holds the point too
C30_Witness ==
    /\ lastQuery.kind = "point"
    /\ lastQuery.result.hit
    /\ WorldToGrid(lastQuery.result.object.position[1], lastQuery.result.object.position[3])
          # WorldToGrid(lastQuery.from[1], lastQuery.from[3])
    /\ \E id \in DOMAIN allObjects :
          /\ allObjects[id].type \in lastQuery.excludeTypes
          /\ PointInside(lastQuery.from[1], lastQuery.from[2], lastQuery.from[3],
                         allObjects[id])

\* the indexed obstacles whose center is at most radius + their own radius
\* from the center of the last query, by a scan of all obstacles
ObstaclesInRadius ==
    {id \in DOMAIN allObjects :
        /\ lastQuery.radius + allObjects[id].radius >= 0
        /\ Sq(lastQuery.from[1] - allObjects[id].position[1])
              + Sq(lastQuery.from[3] - allObjects[id].position[3])
                <= Sq(lastQuery.radius + allObjects[id].radius)}

\* C31: a radius query returns every indexed obstacle within radius plus its
\* own radius of the center, each once, and nothing else.
C31_RadiusQueryIsExactAndDistinct ==
    lastQuery.kind = "radius" =>
        /\ \A i, j \in DOMAIN lastQuery.objects :
              lastQuery.objects[i].id = lastQuery.objects[j].id => i = j
        /\ {lastQuery.objects[i].id : i \in DOMAIN lastQuery.objects} = ObstaclesInRadius
        /\ \A i \in DOMAIN lastQuery.objects :
              lastQuery.objects[i] = allObjects[lastQuery.objects[i].id]

\* C31 witness: a radius query scanned two or more cells that list the same
\* obstacle, returned that obstacle, and left out another indexed obstacle
C31_Witness ==
    /\ lastQuery.kind = "radius"
    /\ \E i \in DOMAIN lastQuery.objects :
          \E c1, c2 \in SeqToSet(CellRange(
                             WorldToGrid(lastQuery.from[1] - lastQuery.radius,
                                         lastQuery.from[3] - lastQuery.radius),
                             WorldToGrid(lastQuery.from[1] + lastQuery.radius,
                                         lastQuery.from[3] + lastQuery.radius))) :
              /\ c1 # c2
              /\ {c1, c2} \subseteq SeqToSet(CoveredCells(lastQuery.objects[i]))
    /\ DOMAIN allObjects \ ObstaclesInRadius # {}

-----------------------------------------------------------------------------
(* Claims about the read operations, checked under SpecRead *)

\* a step in which one of the four queries of the CollisionManager is called
IsQuery == lastQuery.kind = "none" /\ lastQuery'.kind # "none"

\* C32: a call of checkPointCollision, checkCircleCollision,
\* checkSweptCollision, getObjectsInRadius or findPath leaves the obstacle
\* map and the grid (its cells and the order of their lists) as they were.
C32_ReadsLeaveIndexUnchanged ==
    [][(IsQuery \/ IsFindPath) => (allObjects' = allObjects /\ spatialGrid' = spatialGrid)]_vars

\* C32 witness: over an index that holds an obstacle, findPath has answered
\* by a search that went through the ring search and looked up a cell that
\* does not exist
C32_Witness ==
    /\ DOMAIN allObjects # {}
    /\ lastPath.kind = "findPath"
    /\ lastPath.served = "search"
    /\ lastPath.target # << >>
    /\ lastPath.target # WorldToNode(lastPath.request.goalX, lastPath.request.goalZ)
    /\ FindPathReads(Index, lastPath) \ DOMAIN spatialGrid # {}

-----------------------------------------------------------------------------
(* Claims about walkability, checked under SpecWalk *)

\* the kinds of the indexed obstacles whose circle overlaps the circle of the
\* entity at the center of the node, by a scan of all obstacles
KindsOver(node) ==
    {allObjects[id].type :
        id \in {i \in DOMAIN allObjects :
                   CirclesOverlap(NodeToWorld(node)[1], NodeToWorld(node)[2], WalkRadius,
                                  allObjects[i])}}

\* C27: in every index state, a node walkable for a ground entity is walkable
\* for a climbing one, and a node walkable for a climbing entity is walkable
\* for a flying one; a node overlapped by rocks only blocks ground entities
\* only, a node overlapped by trees or shops only blocks ground and climbing
\* entities, and a node overlapped by a waterfall blocks all three.
C27_WalkabilityIsMonotone ==
    \A node \in WalkNodes :
        LET ground == IsNodeWalkable(Index, node, WalkRadius, "ground")
            climbing == IsNodeWalkable(Index, node, WalkRadius, "climbing")
            flying == IsNodeWalkable(Index, node, WalkRadius, "flying")
            kinds == KindsOver(node)
        IN  /\ ground => climbing
            /\ climbing => flying
            /\ kinds = {} => ground
            /\ kinds = {"rock"} => (~ground /\ climbing /\ flying)
            /\ (kinds # {} /\ kinds \subseteq {"tree", "shop"})
                  => (~ground /\ ~climbing /\ flying)
            /\ "waterfall" \in kinds => (~ground /\ ~climbing /\ ~flying)

\* C27 witness: isNodeWalkable was asked for a climbing entity about a node
\* overlapped by a rock only, while the other node is overlapped by a
\* waterfall
C27_Witness ==
    /\ lastQuery.kind = "circle"
    /\ lastQuery.excludeTypes = {"rock"}
    /\ ~lastQuery.result.hit
    /\ \E node \in WalkNodes :
          /\ lastQuery.from = <<NodeToWorld(node)[1], 0, NodeToWorld(node)[2]>>
          /\ KindsOver(node) = {"rock"}
    /\ \E node \in WalkNodes : "waterfall" \in KindsOver(node)

-----------------------------------------------------------------------------
(* Claims about movement, checked under SpecMove *)

\* a frame callback of the player ran
IsPlayerFrame == frameClock'.frames = frameClock.frames + 1 /\ frameClock'.last = "player"

\* a frame callback of the enemy ran
IsEnemyFrame == frameClock'.frames = frameClock.frames + 1 /\ frameClock'.last = "enemy"

\* the place of a position on the ground
Ground(position) == <<position[1], position[3]>>

\* checkCircleCollision reports no hit for a circle at the position
FreeAt(position, radius) ==
    ~CheckCircleCollision(Index, position[1], position[3], radius, {}).hit

\* C38: a frame callback of the player or of an enemy changes the entity's
\* place on the ground only to a place where the circle-collision check for
\* the entity's radius reports no hit; else it leaves the place unchanged.
C38_MovesOnlyToFreePlaces ==
    [][/\ (IsPlayerFrame /\ Ground(playerPos') # Ground(playerPos))
            => FreeAt(playerPos', PlayerRadius)
       /\ (IsEnemyFrame /\ Ground(enemy'.position) # Ground(enemy.position))
            => FreeAt(enemy'.position, EnemyRadius)]_vars

\* the same for the player and for the enemies that are not acrobats, which
\* test every place before they take it
MovesExceptAcrobatToFreePlaces ==
    [][/\ (IsPlayerFrame /\ Ground(playerPos') # Ground(playerPos))
            => FreeAt(playerPos', PlayerRadius)
       /\ (IsEnemyFrame /\ enemy.type # "acrobat"
             /\ Ground(enemy'.position) # Ground(enemy.position))
            => FreeAt(enemy'.position, EnemyRadius)]_vars

\* an acrobat stands inside the collision circle of a tree after a frame
AcrobatInsideTree ==
    /\ enemy.type = "acrobat"
    /\ frameClock.last = "enemy"
    /\ ~FreeAt(enemy.position, EnemyRadius)

====
